---- MODULE Spec2Model ----
(***************************************************************************)
(* Personnel-transport backend (users, passengers, trips): the            *)
(* authentication / authorization middleware chain, the connection cache, *)
(* the transactional passenger deletion and the trip passenger counters.  *)
(*                                                                         *)
(* Identifiers.  ObjectIds are modelled as positive integers that the     *)
(* store hands out in increasing order and never reuses.  GhostId is a    *)
(* well-formed ObjectId that the store never issued, BadId a string that  *)
(* is not an ObjectId at all, EmptyStr the empty string.                   *)
(***************************************************************************)
EXTENDS Integers, FiniteSets, Sequences, TLC

\* ---- bounds of the model ------------------------------------------------
MaxUsers == 2
MaxPassengers == 1
MaxTrips == 2
MaxClock == 2
MaxTokens == 1

\* ---- program constants --------------------------------------------------
\* jwt.sign(..., { expiresIn: '30d' }); the clock counts units of thirty days
ExpiresIn == 1
\* password.length < 8
MinPasswordLen == 8
\* userName minlength
MinUserNameLen == 3

GhostId == 99
BadId == 0
EmptyStr == -1

UserIds == 1..MaxUsers
PassengerIds == 1..MaxPassengers
TripIds == 1..MaxTrips

NoField == "<absent>"

VARIABLES
    cached,      \* global.mongoose = { conn, promise }
    users,       \* User collection: id -> document
    issued,      \* bearer tokens handed out by login (held by clients)
    now,         \* wall clock, units of thirty days
    passengers,  \* Passenger collection: id -> document
    trips,       \* Trip collection: id -> document
    del,         \* the DELETE /passengers/:id request in flight
    last,        \* the request that completed last, with its response
    promise,     \* the connection attempt whose promise is cached.promise
    attempts,    \* mongoose.connect() promises: attempt -> state
    calls,       \* connectDB() calls: caller -> position
    heard,       \* what happened last to the connection cache
    sites,       \* Site collection: site name -> document
    writes       \* document.save() calls that have not reached the store yet

connVars == <<promise, attempts, calls, heard>>
\* what the routes of users, passengers and trips never touch
aside == <<connVars, sites, writes>>
vars == <<cached, users, issued, now, passengers, trips, del, last, connVars, sites, writes>>

\* ---- tokens and headers -------------------------------------------------
\* the empty string left after stripping 'Bearer ' and trimming
NoTok == [uid |-> 0, isAdmin |-> FALSE, exp |-> 0, sig |-> "none"]
\* a string that is not a JWT at all
GarbageTok == [uid |-> 0, isAdmin |-> TRUE, exp |-> 0, sig |-> "bad"]

\* what a client can put after the prefix: nothing, a token it was given,
\* that token with the payload tampered (signature no longer matches), junk
ClientTokens ==
    {NoTok, GarbageTok} \cup issued
      \cup {[t EXCEPT !.sig = "bad", !.isAdmin = TRUE] : t \in {u \in issued : ~u.isAdmin}}

NoHeader == [present |-> FALSE, bearer |-> FALSE, tok |-> NoTok]

\* the Authorization header of a request: absent, or a value that does or
\* does not start with 'Bearer ', followed by tok
Headers ==
    {NoHeader} \cup {[present |-> TRUE, bearer |-> FALSE, tok |-> t] : t \in {NoTok} \cup issued}
      \cup {[present |-> TRUE, bearer |-> TRUE, tok |-> t] : t \in ClientTokens}

\* jwt.verify with the exp claim ignored (ignoreExpiration)
jwtVerifyIgnoresExp(tok, clock) ==
    IF tok.sig # "ok" THEN [ok |-> FALSE, err |-> "JsonWebTokenError", id |-> 0]
    ELSE [ok |-> TRUE, err |-> "", id |-> tok.uid]

\* jwt.verify: signature first, then the exp claim (clock >= exp is expired)
jwtVerify(tok, clock) ==
    IF tok.sig # "ok" THEN [ok |-> FALSE, err |-> "JsonWebTokenError", id |-> 0]
    ELSE IF clock >= tok.exp THEN [ok |-> FALSE, err |-> "TokenExpiredError", id |-> 0]
    ELSE [ok |-> TRUE, err |-> "", id |-> tok.uid]

\* jwt.sign({ _id, isAdmin }, secret, { expiresIn: '30d' })
jwtSign(uid, adminFlag, clock) ==
    [uid |-> uid, isAdmin |-> adminFlag, exp |-> clock + ExpiresIn, sig |-> "ok"]

\* ---- errors ---------------------------------------------------------------
\* names of the errors the driver / ODM raise for connectivity and timeouts
ConnErrors == {"MongooseServerSelectionError"}
QueryErrors == {"MongoServerError"}
\* err.name === 'MongooseError' || err.name.includes('Mongo')
IncludesMongo(name) ==
    name \in {"MongoError", "MongooseError", "MongooseServerSelectionError",
              "MongoServerError", "MongoNetworkError"}

ConnResults == {"ok"} \cup ConnErrors
QueryOutcomes == {"ok"} \cup QueryErrors

\* ---- the connection cache -------------------------------------------------
\* the outcomes connectDB() can have in the current cache state
ConnOutcomes == IF cached.conn THEN {"ok"} ELSE ConnResults

\* connectDB(): cached handle, or one attempt that fills or clears the cache
connectDB(c) ==
    IF cached.conn THEN cached
    ELSE IF c = "ok" THEN [conn |-> TRUE, promise |-> TRUE]
    ELSE [conn |-> FALSE, promise |-> FALSE]

\* ---- responses --------------------------------------------------------------
NoUser == [set |-> FALSE, id |-> 0, isAdmin |-> FALSE, hasPassword |-> FALSE]

Resp(status, error, message, code) ==
    [status |-> status, error |-> error, message |-> message, code |-> code]

\* outcome of a middleware: either it called next, or it sent a response
Sent(status, error, message, code) ==
    [nexts |-> 0, sends |-> 1, user |-> NoUser,
     resp |-> Resp(status, error, message, code)]

Next1(user) ==
    [nexts |-> 1, sends |-> 0, user |-> user, resp |-> Resp(0, NoField, NoField, NoField)]

\* ---- authentication middleware ----------------------------------------------
\* the catch block of auth
authCatch(name) ==
    IF name = "JsonWebTokenError"
      THEN Sent(401, "Invalid token", "Malformed JWT token", "JWT_INVALID")
    ELSE IF name = "TokenExpiredError"
      THEN Sent(401, "Token expired", "Please log in again", "JWT_EXPIRED")
    ELSE IF IncludesMongo(name)
      THEN Sent(503, "Service unavailable", "Database connection issue", "DB_ERROR")
    ELSE Sent(401, "Authentication failed", "Please authenticate", "AUTH_FAILED")

\* User.findById(id) with the projection forgotten
selectEverything(id) ==
    [set |-> TRUE, id |-> id, isAdmin |-> users[id].isAdmin, hasPassword |-> TRUE]

\* User.findById(id).select('-password -__v')
selectNoPassword(id) ==
    [set |-> TRUE, id |-> id, isAdmin |-> users[id].isAdmin, hasPassword |-> FALSE]

\* auth with the startsWith('Bearer ') test forgotten: what follows is taken for
\* the token whatever the scheme
authNoSchemeTest(hdr, c, q) ==
    IF c # "ok" THEN authCatch(c)
    ELSE IF ~hdr.present
      THEN Sent(401, "Authentication required", "No authorization header provided", NoField)
    ELSE IF hdr.tok = NoTok
      THEN Sent(401, "Invalid token", "Token is missing after Bearer prefix", NoField)
    ELSE LET v == jwtVerify(hdr.tok, now) IN
      IF ~v.ok THEN authCatch(v.err)
      ELSE IF q # "ok" THEN authCatch(q)
      ELSE IF users[v.id].st # "live"
        THEN Sent(401, "Invalid token", "User not found", NoField)
      ELSE Next1(selectNoPassword(v.id))

\* auth attaching the isAdmin claim of the token in place of the stored flag
authTrustsToken(hdr, c, q) ==
    IF c # "ok" THEN authCatch(c)
    ELSE IF ~hdr.present
      THEN Sent(401, "Authentication required", "No authorization header provided", NoField)
    ELSE IF ~hdr.bearer
      THEN Sent(401, "Invalid token format", "Authorization header must start with Bearer", NoField)
    ELSE IF hdr.tok = NoTok
      THEN Sent(401, "Invalid token", "Token is missing after Bearer prefix", NoField)
    ELSE LET v == jwtVerify(hdr.tok, now) IN
      IF ~v.ok THEN authCatch(v.err)
      ELSE IF q # "ok" THEN authCatch(q)
      ELSE IF users[v.id].st # "live"
        THEN Sent(401, "Invalid token", "User not found", NoField)
      ELSE Next1([selectNoPassword(v.id) EXCEPT !.isAdmin = hdr.tok.isAdmin])

\* auth(req, res, next); c is the outcome of dbConnect(), q of User.findById
auth(hdr, c, q) ==
    IF c # "ok" THEN authCatch(c)
    ELSE IF ~hdr.present
      THEN Sent(401, "Authentication required", "No authorization header provided", NoField)
    ELSE IF ~hdr.bearer
      THEN Sent(401, "Invalid token format", "Authorization header must start with Bearer", NoField)
    ELSE IF hdr.tok = NoTok
      THEN Sent(401, "Invalid token", "Token is missing after Bearer prefix", NoField)
    ELSE LET v == jwtVerify(hdr.tok, now) IN
      IF ~v.ok THEN authCatch(v.err)
      ELSE IF q # "ok" THEN authCatch(q)
      ELSE IF users[v.id].st # "live"
        THEN Sent(401, "Invalid token", "User not found", NoField)
      ELSE Next1(selectNoPassword(v.id))

\* auth.optional answering a bad token itself, the way auth does
authOptionalAnswers(hdr, c, q) ==
    IF hdr.present /\ hdr.bearer
      THEN LET v == jwtVerify(hdr.tok, now) IN
        IF ~v.ok THEN authCatch(v.err)
        ELSE IF c # "ok" \/ q # "ok" THEN Next1(NoUser)
        ELSE IF users[v.id].st = "live" THEN Next1(selectNoPassword(v.id))
        ELSE Next1(NoUser)
    ELSE Next1(NoUser)

\* auth.optional(req, res, next): verify before dbConnect, swallow every error
authOptional(hdr, c, q) ==
    IF hdr.present /\ hdr.bearer
      THEN LET v == jwtVerify(hdr.tok, now) IN
        IF ~v.ok \/ c # "ok" \/ q # "ok" THEN Next1(NoUser)
        ELSE IF users[v.id].st = "live" THEN Next1(selectNoPassword(v.id))
        ELSE Next1(NoUser)
    ELSE Next1(NoUser)

\* whether auth.optional reaches its dbConnect() call
optionalConnects(hdr) ==
    hdr.present /\ hdr.bearer /\ jwtVerify(hdr.tok, now).ok

\* admin trusting any attached identity
adminAnyUser(user) ==
    IF ~user.set
      THEN Sent(401, "Authentication required", "Please log in to access this resource", NoField)
    ELSE Next1(user)

\* ---- authorization middleware -----------------------------------------------
admin(user) ==
    IF ~user.set
      THEN Sent(401, "Authentication required", "Please log in to access this resource", NoField)
    ELSE IF ~user.isAdmin
      THEN [Sent(403, "Admin access required",
                 "This action requires administrator privileges", NoField)
              EXCEPT !.user = user]
    ELSE Next1(user)

\* a route registered with auth alone
gateAuthOnly(hdr, c, q) == auth(hdr, c, q)

\* the chain [auth, admin] in front of a route handler
gate(hdr, c, q) ==
    LET a == auth(hdr, c, q) IN
    IF a.nexts = 1 THEN admin(a.user) ELSE a

\* whether auth reaches its User.findById call
authLooksUp(hdr, c) ==
    /\ c = "ok"
    /\ hdr.present /\ hdr.bearer /\ hdr.tok # NoTok
    /\ jwtVerify(hdr.tok, now).ok

\* outcomes of the lookup made by auth ("unused" when it is not reached)
AuthQ(hdr, c) == IF authLooksUp(hdr, c) THEN QueryOutcomes ELSE {"unused"}
OptQ(hdr, c) ==
    IF optionalConnects(hdr) /\ c = "ok" THEN QueryOutcomes ELSE {"unused"}

\* ---- strings of the request bodies ------------------------------------------
\* String.prototype.trim on the strings the model sends
Trim(s) ==
    IF s = " " THEN "" ELSE IF s = "Rig " THEN "Rig"
    ELSE IF s = " password1" THEN "password1" ELSE s
\* String.prototype.length
StrLen(s) ==
    CASE s = "" -> 0
      [] s = " " -> 1
      [] s = "al" -> 2
      [] s \in {"amy", "bob", "a_b"} -> 3
      [] s = "short" -> 5
      [] s \in {"password1", "password2"} -> 9
      [] s = " password1" -> 10
      [] OTHER -> 1
\* /^[a-zA-Z0-9\-]+$/.test(s)
UserNameRe(s) == s \in {"al", "amy", "bob"}
\* bcrypt.hash(p, salt), bcrypt.compare(p, h)
Hash(p) == "$2a$12$" \o p
Compare(p, h) == h = Hash(p)

UserNameInputs == {"", "a_b", "al", "amy", "bob"}
PasswordInputs == {"", "short", "password1"}
NameInputs == {"", " ", "Ann", "Ben"}

\* ---- stored documents ---------------------------------------------------------
FreeUser == [st |-> "free", userName |-> "", password |-> "", isAdmin |-> FALSE]
FreePassenger == [st |-> "free", firstName |-> "", lastName |-> ""]
\* numberOfPassengers: null, a field the document does not have, and NaN
Null == -100
Absent == -300
NaN == -200
FreeTrip ==
    [st |-> "free", passengerId |-> EmptyStr,
     tripDate |-> [kind |-> "absent", day |-> 0, hour |-> 0, offset |-> 0],
     confirmed |-> FALSE, numberOfPassengers |-> Null]

\* the id the store gives to the next inserted document (0: none left)
FreshId(coll, ids) ==
    IF \E i \in ids : coll[i].st = "free"
      THEN CHOOSE i \in ids : coll[i].st = "free" /\ \A j \in ids : j < i => coll[j].st # "free"
      ELSE 0

\* Model.findOne({ userName }) on a User collection
findIn(coll, name) ==
    IF \E i \in UserIds : coll[i].st = "live" /\ coll[i].userName = name
      THEN CHOOSE i \in UserIds : coll[i].st = "live" /\ coll[i].userName = name
      ELSE 0

findByUserName(name) == findIn(users, name)

\* ids a client can name in a path: documents that were created, a well-formed
\* id that was never issued, and a string that is not an ObjectId
KnownIds(coll, ids) == {i \in ids : coll[i].st # "free"} \cup {GhostId, BadId}
IsLive(coll, ids, id) == id \in ids /\ coll[id].st = "live"

\* ---- the record of the last completed request ---------------------------------
NotRun == [nexts |-> 0, sends |-> 0, user |-> NoUser, resp |-> Resp(0, NoField, NoField, NoField)]
NoSess == [started |-> 0, ended |-> 0]

\* op: the route; auth: what the authentication middleware did; handler: whether
\* the route handler was entered; resp: the response sent; sess: sessions started
\* and ended by the handler; target: req.params.id of a passenger deletion
Done(op, a, handler, resp, sess) ==
    [op |-> op, auth |-> a, handler |-> handler, resp |-> resp, sess |-> sess,
     target |-> EmptyStr]

\* handleError of userRoutes / tripRoutes
handleError(name, customMessage) ==
    IF name = "CastError"
      THEN Resp(400, "Invalid ID format", "Please provide a valid ID", NoField)
    ELSE IF name = "ValidationError"
      THEN Resp(400, "Validation failed", "validation message", NoField)
    ELSE IF IncludesMongo(name)
      THEN Resp(503, "Database service unavailable", "Please try again later", NoField)
    ELSE Resp(500, customMessage, NoField, NoField)

\* handleError of passengerRoutes: no message field in any branch
handleErrorP(name, customMessage) ==
    IF name = "CastError" THEN Resp(400, "Invalid ID format", NoField, NoField)
    ELSE IF name = "ValidationError" THEN Resp(400, "validation message", NoField, NoField)
    ELSE IF IncludesMongo(name) THEN Resp(503, "Database service unavailable", NoField, NoField)
    ELSE Resp(500, customMessage, NoField, NoField)

Ok(status) == Resp(status, NoField, NoField, NoField)
Invalid(message) == Resp(400, "Validation failed", message, NoField)
NotFound(message) == Resp(404, "Not found", message, NoField)

\* ---- sites ----------------------------------------------------------------------
\* const locations, in the order of the bulk operations
locations == <<"Ogle", "NTM", "NSC", "NDT", "NBD", "STC">>
Locations == {locations[i] : i \in DOMAIN locations}
defaultMaximumPOB == 200
\* the site names of the model: the six locations and one more
SiteNames == Locations \cup {"Rig"}

FreeSite == [st |-> "free", currentPOB |-> Absent, maximumPOB |-> Absent,
             pobUpdatedDate |-> Absent]
NoSites == [n \in SiteNames |-> FreeSite]

\* ---- connectDB(), call by call -----------------------------------------------
\* callers of connectDB() at a time; a pending attempt has a caller that awaits
\* it, so there are as many attempts as callers
MaxCalls == 3
CallIds == 1..MaxCalls
AttemptIds == 1..MaxCalls
NoPromise == 0

\* an attempt is free (no such promise), pending, or resolved and still the
\* cached promise; a rejected one is referenced by nobody and is free again
InFlight == {a \in AttemptIds : attempts[a] = "pending"}
FreeAttempts == {a \in AttemptIds : attempts[a] = "free"}
newAttempt == CHOOSE a \in FreeAttempts : \A b \in FreeAttempts : a <= b

Waiting == [pc |-> "idle", on |-> NoPromise]
Returned == [pc |-> "returned", on |-> NoPromise]
Threw == [pc |-> "threw", on |-> NoPromise]
Awaiting(a) == [pc |-> "awaiting", on |-> a]
awaiters(a) == {k \in CallIds : calls[k] = Awaiting(a)}

\* kind and outcome of the step, the calls it resumed, and whether the cache
\* held a handle before it
Heard(kind, what, n) == [kind |-> kind, what |-> what, n |-> n, held |-> cached.conn]

NoCalls ==
    /\ promise = NoPromise
    /\ attempts = [a \in AttemptIds |-> "free"]
    /\ calls = [k \in CallIds |-> Waiting]
    /\ heard = [kind |-> "none", what |-> "none", n |-> 0, held |-> FALSE]

\* the cache and the promises after a step
Net(c, p, as, cs, h) == [cached |-> c, promise |-> p, attempts |-> as, calls |-> cs, heard |-> h]

\* once the cached promise is dropped, a resolved attempt is no promise of
\* anybody's
dropped(as) == [a \in AttemptIds |-> IF as[a] = "resolved" THEN "free" ELSE as[a]]

\* connectDB() up to its await, by caller k
connect(k) ==
    IF cached.conn
      THEN Net(cached, promise, attempts, [calls EXCEPT ![k] = Returned],
               Heard("call", "cached", 0))
    ELSE IF ~cached.promise
      THEN Net([cached EXCEPT !.promise = TRUE], newAttempt,
               [attempts EXCEPT ![newAttempt] = "pending"],
               [calls EXCEPT ![k] = Awaiting(newAttempt)],
               Heard("call", "started", 0))
    ELSE IF attempts[promise] = "resolved"
      THEN Net([cached EXCEPT !.conn = TRUE], promise, attempts,
               [calls EXCEPT ![k] = Returned], Heard("call", "joined", 0))
    ELSE Net(cached, promise, attempts, [calls EXCEPT ![k] = Awaiting(promise)],
             Heard("call", "joined", 0))

\* mongoose.connect() of attempt a resolves: every call that awaits it stores
\* the handle and returns
resolve(a) ==
    Net([cached EXCEPT !.conn = TRUE], promise,
        [attempts EXCEPT ![a] = IF promise = a THEN "resolved" ELSE "free"],
        [k \in CallIds |-> IF k \in awaiters(a) THEN Returned ELSE calls[k]],
        Heard("settle", "resolved", Cardinality(awaiters(a))))

\* mongoose.connect() of attempt a rejects: the .catch() of the attempt and
\* the catch of every call that awaits it reset cached.promise, whichever
\* promise it holds, and the calls throw
reject(a) ==
    Net([cached EXCEPT !.promise = FALSE], NoPromise,
        dropped([attempts EXCEPT ![a] = "free"]),
        [k \in CallIds |-> IF k \in awaiters(a) THEN Threw ELSE calls[k]],
        Heard("settle", "rejected", Cardinality(awaiters(a))))

\* handlers that only log
onLogOnly(e) == Net(cached, promise, attempts, calls, Heard("event", e, 0))

\* mongoose.connection.on('connected' | 'error' | 'disconnected')
on(e) ==
    IF e = "connected" THEN Net(cached, promise, attempts, calls, Heard("event", e, 0))
    ELSE Net([conn |-> FALSE, promise |-> FALSE], NoPromise, dropped(attempts), calls,
             Heard("event", e, 0))

ConnectionEvents == {"connected", "error", "disconnected"}

dataVars == <<users, issued, now, passengers, trips, del, last, sites, writes>>

Becomes(n) ==
    /\ cached' = n.cached
    /\ promise' = n.promise
    /\ attempts' = n.attempts
    /\ calls' = n.calls
    /\ heard' = n.heard
    /\ UNCHANGED dataVars

Call(k) == calls[k] = Waiting /\ Becomes(connect(k))
Resolve(a) == a \in InFlight /\ Becomes(resolve(a))
Reject(a) == a \in InFlight /\ Becomes(reject(a))
Event(e) == e \in ConnectionEvents /\ Becomes(on(e))
\* the request of caller k ends; k is free to call again
Finish(k) ==
    /\ calls[k] \in {Returned, Threw}
    /\ calls' = [calls EXCEPT ![k] = Waiting]
    /\ heard' = Heard("finish", "none", 0)
    /\ UNCHANGED <<cached, promise, attempts, dataVars>>

\* no passenger deletion in flight
Idle ==
    [pc |-> "idle", id |-> 0, auth |-> NotRun,
     session |-> "null", psnap |-> FreePassenger,
     tsnap |-> [i \in TripIds |-> FreeTrip], locked |-> {}]

\* the requests that can be between their last read and their save
MaxWrites == 2
WriteIds == 1..MaxWrites
\* no save pending in slot k
NoWrite == [op |-> "none", id |-> 0, ch |-> [userName |-> NoField, password |-> NoField,
                                             isAdmin |-> NoField]]
NoWrites == [k \in WriteIds |-> NoWrite]

Init ==
    /\ cached = [conn |-> FALSE, promise |-> FALSE]
    /\ users = [i \in UserIds |-> FreeUser]
    /\ issued = {}
    /\ now = 0
    /\ passengers = [i \in PassengerIds |-> FreePassenger]
    /\ trips = [i \in TripIds |-> FreeTrip]
    /\ del = Idle
    /\ last = Done("none", NotRun, FALSE, Resp(0, NoField, NoField, NoField), NoSess)
    /\ NoCalls
    /\ sites = NoSites
    /\ writes = NoWrites

\* ---- environment ----------------------------------------------------------------
\* time passes
Tick ==
    /\ now < MaxClock
    /\ now' = now + 1
    /\ UNCHANGED <<cached, users, issued, passengers, trips, del, last, aside>>

\* mongoose.connection.on('error' | 'disconnected'): the cache is cleared
ConnectionLost ==
    /\ cached.conn
    /\ cached' = [conn |-> FALSE, promise |-> FALSE]
    /\ UNCHANGED <<users, issued, now, passengers, trips, del, last, aside>>

\* ---- POST /users/register ---------------------------------------------------------
\* hasNames: the body carries a non-empty firstName and lastName (schema: required)
\* the password that reaches the store: the save hook hashes what the handler
\* assigned
savePlain(password) == password
saveHashed(password) == Hash(password)

\* ---- document.save() -----------------------------------------------------------------
\* the paths a handler assigned to its document; NoField is a path it left alone
Changes(userName, password, isAdmin) ==
    [userName |-> userName, password |-> password, isAdmin |-> isAdmin]
\* the document after the assignments ch are written; the save hook hashes an
\* assigned password
assign(doc, ch) ==
    [st |-> "live",
     userName |-> IF ch.userName = NoField THEN doc.userName ELSE ch.userName,
     password |-> IF ch.password = NoField THEN doc.password ELSE saveHashed(ch.password),
     isAdmin |-> IF ch.isAdmin = NoField THEN doc.isAdmin ELSE ch.isAdmin = "true"]
\* the index { userName: 1 } is unique: a document other than id holds the name
taken(coll, id, name) ==
    \E j \in UserIds : j # id /\ coll[j].st = "live" /\ coll[j].userName = name
\* a store whose index on userName is not unique
saveUnindexed(coll, w, customMessage) ==
    IF w.id = 0
      THEN [resp |-> Ok(201),
            users |-> [coll EXCEPT ![FreshId(coll, UserIds)] = assign(FreeUser, w.ch)]]
    ELSE IF coll[w.id].st # "live"
      THEN [resp |-> handleError("DocumentNotFoundError", customMessage), users |-> coll]
    ELSE [resp |-> Ok(200), users |-> [coll EXCEPT ![w.id] = assign(coll[w.id], w.ch)]]
\* document.save() of the write w reaches the store: the insert of a new
\* document (w.id = 0) or the update of the modified paths of document w.id;
\* a duplicate key is a MongoServerError (E11000) and nothing is written
save(coll, w, customMessage) ==
    IF w.ch.userName # NoField /\ taken(coll, w.id, w.ch.userName)
      THEN [resp |-> handleError("MongoServerError", customMessage), users |-> coll]
    ELSE IF w.id = 0
      THEN [resp |-> Ok(201),
            users |-> [coll EXCEPT ![FreshId(coll, UserIds)] = assign(FreeUser, w.ch)]]
    ELSE IF coll[w.id].st # "live"
      THEN [resp |-> handleError("DocumentNotFoundError", customMessage), users |-> coll]
    ELSE [resp |-> Ok(200), users |-> [coll EXCEPT ![w.id] = assign(coll[w.id], w.ch)]]

\* POST /users/register up to user.save(): the response that ends the
\* request before the save (status 201: none, the handler saves) and the write
\* it saves
registerFind(coll, userName, password, hasNames, isAdminIn, c, q) ==
    LET stop(r) == [resp |-> r, write |-> NoWrite] IN
    IF c # "ok" THEN stop(handleError(c, "Failed to register user"))
    ELSE IF Trim(userName) = "" \/ Trim(password) = ""
      THEN stop(Invalid("Username and password are required"))
    ELSE IF ~UserNameRe(Trim(userName))
      THEN stop(Invalid("Username can only contain letters, numbers, and hyphens"))
    ELSE IF StrLen(password) < MinPasswordLen
      THEN stop(Invalid("Password must be at least 8 characters long"))
    ELSE IF q # "ok" THEN stop(handleError(q, "Failed to register user"))
    ELSE IF findIn(coll, Trim(userName)) # 0 THEN stop(Invalid("Username already exists"))
    ELSE IF StrLen(Trim(userName)) < MinUserNameLen \/ ~hasNames
            \/ StrLen(Trim(password)) < MinPasswordLen
      THEN stop(handleError("ValidationError", "Failed to register user"))
    ELSE [resp |-> Ok(201),
          write |-> [op |-> "register", id |-> 0,
                     ch |-> Changes(Trim(userName), Trim(password),
                                    IF isAdminIn THEN "true" ELSE "false")]]

\* POST /users/register on a User collection when nothing comes between its
\* read and its save: the response and the collection afterwards
register(coll, userName, password, hasNames, isAdminIn, c, q) ==
    LET f == registerFind(coll, userName, password, hasNames, isAdminIn, c, q) IN
    IF f.resp.status # 201 THEN [resp |-> f.resp, users |-> coll]
    ELSE save(coll, f.write, "Failed to register user")

Register(userName, password, hasNames, isAdminIn, c, q) ==
    /\ c \in ConnOutcomes
    /\ cached' = connectDB(c)
    /\ LET r == register(users, userName, password, hasNames, isAdminIn, c, q) IN
       /\ r.resp.status = 201 => FreshId(users, UserIds) # 0
       /\ users' = r.users
       /\ last' = Done("register", NotRun, TRUE, r.resp, NoSess)
    /\ UNCHANGED <<issued, now, passengers, trips, del, aside>>

\* ---- POST /users/login --------------------------------------------------------------
\* POST /users/login on a User collection: the response and the user who
\* logged in (0: nobody)
login(coll, userName, password, c, q) ==
    LET id == findIn(coll, Trim(userName))
        bad == Resp(401, "Authentication failed", "Invalid credentials", NoField)
        no(r) == [resp |-> r, id |-> 0]
    IN
    IF c # "ok" THEN no(handleError(c, "Failed to login user"))
    ELSE IF Trim(userName) = "" \/ Trim(password) = ""
      THEN no(Invalid("Username and password are required"))
    ELSE IF q # "ok" THEN no(handleError(q, "Failed to login user"))
    ELSE IF id = 0 THEN no(bad)
    ELSE IF ~Compare(password, coll[id].password) THEN no(bad)
    ELSE [resp |-> Ok(200), id |-> id]

Login(userName, password, c, q) ==
    /\ c \in ConnOutcomes
    /\ cached' = connectDB(c)
    /\ LET r == login(users, userName, password, c, q)
           token == jwtSign(r.id, users[r.id].isAdmin, now)
       IN
       /\ last' = Done("login", NotRun, TRUE, r.resp, NoSess)
       /\ IF r.id = 0 THEN UNCHANGED issued
          ELSE /\ token \in issued \/ Cardinality(issued) < MaxTokens
               /\ issued' = issued \cup {token}
    /\ UNCHANGED <<users, now, passengers, trips, del, aside>>

\* ---- requests behind the strict middleware --------------------------------------
\* a request stopped by auth or admin: the middleware's response is the answer
Rejected(op, hdr, c, q) ==
    /\ gate(hdr, c, q).nexts = 0
    /\ last' = Done(op, auth(hdr, c, q), FALSE, gate(hdr, c, q).resp, NoSess)

\* a request that reached its handler, which answers r
Handled(op, hdr, c, q, r) ==
    /\ gate(hdr, c, q).nexts = 1
    /\ last' = Done(op, auth(hdr, c, q), TRUE, r, NoSess)

\* GET /users/me: auth only
UserMe(hdr, c, q, qh) ==
    /\ c \in ConnOutcomes /\ q \in AuthQ(hdr, c)
    /\ cached' = connectDB(c)
    /\ LET a == auth(hdr, c, q) IN
       last' = Done("me", a, a.nexts = 1,
                    IF a.nexts = 0 THEN a.resp
                    ELSE IF qh # "ok" THEN handleError(qh, "Failed to fetch user profile")
                    ELSE Ok(200), NoSess)
    /\ UNCHANGED <<users, issued, now, passengers, trips, del, aside>>

\* ---- what a response shows of a user ---------------------------------------------
\* doc.toObject(): the fields of the stored document
toObject(doc) ==
    [userName |-> doc.userName, password |-> doc.password, isAdmin |-> doc.isAdmin,
     tokens |-> <<>>]
\* delete obj.f for the fields fs; .select('-f')
Without(obj, fs) == [k \in DOMAIN obj \ fs |-> obj[k]]
\* UserSchema.methods.toJSON, which res.json() applies to a document
toJSON(obj) ==
    Without(obj, {"password", "tokens", "resetPasswordToken", "resetPasswordExpire"})

UserRoutes ==
    {"register", "login", "me", "profileUpdate", "userList", "userGet", "userUpdate",
     "userDelete"}

\* the body of the success response of a user route about the stored user doc
userBody(op, doc) ==
    CASE op = "register" -> Without(toObject(doc), {"password"})
      [] op = "login" ->
           [user |-> Without(Without(toObject(doc), {"password"}), {"tokens"}),
            token |-> jwtSign(0, doc.isAdmin, now)]
      [] op = "userDelete" ->
           [message |-> "User deleted successfully", userName |-> doc.userName]
      [] OTHER -> toJSON(Without(toObject(doc), {"password"}))

\* PUT /users/me: auth only; the body carries currentPassword and newPassword
\* (NoField: not in the body)
ProfileUpdate(currentPassword, newPassword, hdr, c, q, qh) ==
    /\ c \in ConnOutcomes /\ q \in AuthQ(hdr, c)
    /\ cached' = connectDB(c)
    /\ LET a == auth(hdr, c, q)
           id == a.user.id
           changes == newPassword # NoField /\ newPassword # ""
           reply(r) == last' = Done("profileUpdate", a, a.nexts = 1, r, NoSess)
       IN
       IF a.nexts = 0 THEN reply(a.resp) /\ UNCHANGED users
       ELSE IF qh # "ok"
         THEN reply(handleError(qh, "Failed to update user profile")) /\ UNCHANGED users
       ELSE IF ~changes THEN reply(Ok(200)) /\ UNCHANGED users
       ELSE IF currentPassword = NoField \/ currentPassword = ""
         THEN reply(Invalid("Current password is required to set new password"))
              /\ UNCHANGED users
       ELSE IF ~Compare(currentPassword, users[id].password)
         THEN reply(Invalid("Current password is incorrect")) /\ UNCHANGED users
       ELSE IF StrLen(newPassword) < MinPasswordLen
         THEN reply(Invalid("New password must be at least 8 characters"))
              /\ UNCHANGED users
       ELSE /\ users' = [users EXCEPT ![id].password = saveHashed(newPassword)]
            /\ reply(Ok(200))
    /\ UNCHANGED <<issued, now, passengers, trips, del, aside>>

\* a request through auth.optional; the handler answers 200 either way
OptionalRequest(hdr, c, q) ==
    /\ c \in (IF optionalConnects(hdr) THEN ConnOutcomes ELSE {"ok"})
    /\ q \in OptQ(hdr, c)
    /\ cached' = (IF optionalConnects(hdr) THEN connectDB(c) ELSE cached)
    /\ last' = Done("optional", authOptional(hdr, c, q), TRUE, Ok(200), NoSess)
    /\ UNCHANGED <<users, issued, now, passengers, trips, del, aside>>

\* GET /users  [auth, admin]
UserList(hdr, c, q, qh) ==
    /\ c \in ConnOutcomes /\ q \in AuthQ(hdr, c)
    /\ cached' = connectDB(c)
    /\ \/ Rejected("userList", hdr, c, q)
       \/ Handled("userList", hdr, c, q,
                  IF qh # "ok" THEN handleError(qh, "Failed to fetch users") ELSE Ok(200))
    /\ UNCHANGED <<users, issued, now, passengers, trips, del, aside>>

\* Model.findById(id) and its relatives: the error or miss before the hit
lookup(coll, ids, id, qh, customMessage) ==
    IF id = BadId THEN handleError("CastError", customMessage)
    ELSE IF qh # "ok" THEN handleError(qh, customMessage)
    ELSE IF ~IsLive(coll, ids, id) THEN NotFound("not found")
    ELSE Ok(200)

\* GET /users/:id  [auth, admin]
UserGet(id, hdr, c, q, qh) ==
    /\ c \in ConnOutcomes /\ q \in AuthQ(hdr, c)
    /\ cached' = connectDB(c)
    /\ \/ Rejected("userGet", hdr, c, q)
       \/ Handled("userGet", hdr, c, q,
                  lookup(users, UserIds, id, qh, "Failed to fetch user"))
    /\ UNCHANGED <<users, issued, now, passengers, trips, del, aside>>

\* PUT /users/:id up to user.save(): the response that ends the request
\* before the save (status 200: none, the handler saves) and the write it
\* saves; NoField is a field the body does not carry
userUpdateFind(coll, id, userName, isAdminIn, password, qh) ==
    LET found == lookup(coll, UserIds, id, qh, "Failed to update user")
        renames == userName # NoField /\ userName # "" /\ userName # coll[id].userName
        newName == IF renames THEN Trim(userName) ELSE coll[id].userName
        sets == password # NoField /\ password # ""
        stop(r) == [resp |-> r, write |-> NoWrite]
    IN
    IF found.status # 200 THEN stop(found)
    ELSE IF renames /\ ~UserNameRe(Trim(userName))
      THEN stop(Invalid("Username can only contain letters, numbers, and hyphens"))
    ELSE IF renames /\ findIn(coll, Trim(userName)) # 0
      THEN stop(Invalid("Username already exists"))
    ELSE IF sets /\ StrLen(password) < MinPasswordLen
      THEN stop(Invalid("Password must be at least 8 characters"))
    ELSE IF StrLen(newName) < MinUserNameLen
      THEN stop(handleError("ValidationError", "Failed to update user"))
    ELSE [resp |-> Ok(200),
          write |-> [op |-> "userUpdate", id |-> id,
                     ch |-> Changes(IF renames THEN Trim(userName) ELSE NoField,
                                    IF sets THEN password ELSE NoField, isAdminIn)]]

\* PUT /users/:id on a User collection when nothing comes between its reads
\* and its save: the response and the collection afterwards
userUpdate(coll, id, userName, isAdminIn, password, qh) ==
    LET f == userUpdateFind(coll, id, userName, isAdminIn, password, qh) IN
    IF f.resp.status # 200 THEN [resp |-> f.resp, users |-> coll]
    ELSE save(coll, f.write, "Failed to update user")

\* PUT /users/:id  [auth, admin]
UserUpdate(id, userName, isAdminIn, password, hdr, c, q, qh) ==
    /\ c \in ConnOutcomes /\ q \in AuthQ(hdr, c)
    /\ cached' = connectDB(c)
    /\ \/ Rejected("userUpdate", hdr, c, q) /\ UNCHANGED users
       \/ LET r == userUpdate(users, id, userName, isAdminIn, password, qh) IN
          /\ Handled("userUpdate", hdr, c, q, r.resp)
          /\ users' = r.users
    /\ UNCHANGED <<issued, now, passengers, trips, del, aside>>

\* DELETE /users/:id  [auth, admin]
UserDelete(id, hdr, c, q, qh) ==
    /\ c \in ConnOutcomes /\ q \in AuthQ(hdr, c)
    /\ cached' = connectDB(c)
    /\ \/ Rejected("userDelete", hdr, c, q) /\ UNCHANGED users
       \/ LET found == lookup(users, UserIds, id, qh, "Failed to delete user") IN
          /\ Handled("userDelete", hdr, c, q, found)
          /\ users' = IF found.status = 200
                        THEN [users EXCEPT ![id] = [FreeUser EXCEPT !.st = "gone"]]
                        ELSE users
    /\ UNCHANGED <<issued, now, passengers, trips, del, aside>>

\* ---- passengers ---------------------------------------------------------------------
\* handleError of passengerRoutes applied to a lookup
lookupP(id, qh, customMessage) ==
    IF id = BadId THEN handleErrorP("CastError", customMessage)
    ELSE IF qh # "ok" THEN handleErrorP(qh, customMessage)
    ELSE IF ~IsLive(passengers, PassengerIds, id) THEN NotFound("Passenger not found")
    ELSE Ok(200)

NamesMissing(firstName, lastName) == Trim(firstName) = "" \/ Trim(lastName) = ""
NamesRequired ==
    Invalid("First name and last name are required and cannot be empty")

\* POST /passengers  [auth, admin]
PassengerCreate(firstName, lastName, hdr, c, q, qh) ==
    /\ c \in ConnOutcomes /\ q \in AuthQ(hdr, c)
    /\ cached' = connectDB(c)
    /\ \/ Rejected("passengerCreate", hdr, c, q) /\ UNCHANGED passengers
       \/ LET id == FreshId(passengers, PassengerIds)
              reply(r) == Handled("passengerCreate", hdr, c, q, r)
          IN
          IF NamesMissing(firstName, lastName) THEN reply(NamesRequired) /\ UNCHANGED passengers
          ELSE IF qh # "ok"
            THEN reply(handleErrorP(qh, "Failed to create passenger")) /\ UNCHANGED passengers
          ELSE /\ id # 0
               /\ passengers' = [passengers EXCEPT ![id] =
                     [st |-> "live", firstName |-> Trim(firstName), lastName |-> Trim(lastName)]]
               /\ reply(Ok(201))
    /\ UNCHANGED <<users, issued, now, trips, del, aside>>

\* documents written by the open transaction of the deletion in flight: other
\* writers of these documents wait until the transaction ends
LockedPassengers == IF del.pc = "commit" THEN {del.id} ELSE {}
LockedTrips == IF del.pc \in {"deletePassenger", "commit"} THEN del.locked ELSE {}

\* PUT /passengers/:id and PUT /passengers (id in the body)  [auth, admin]
PassengerUpdate(op, id, firstName, lastName, hdr, c, q, qh) ==
    /\ c \in ConnOutcomes /\ q \in AuthQ(hdr, c)
    /\ cached' = connectDB(c)
    /\ \/ Rejected(op, hdr, c, q) /\ UNCHANGED passengers
       \/ LET found == lookupP(id, qh, "Failed to update passenger")
              reply(r) == Handled(op, hdr, c, q, r)
          IN
          IF op = "passengerUpdateBody" /\ id = EmptyStr
            THEN reply(Invalid("Passenger ID is required")) /\ UNCHANGED passengers
          ELSE IF NamesMissing(firstName, lastName)
            THEN reply(NamesRequired) /\ UNCHANGED passengers
          ELSE IF found.status # 200 THEN reply(found) /\ UNCHANGED passengers
          ELSE /\ id \notin LockedPassengers
               /\ passengers' = [passengers EXCEPT ![id] =
                     [st |-> "live", firstName |-> Trim(firstName), lastName |-> Trim(lastName)]]
               /\ reply(Ok(200))
    /\ UNCHANGED <<users, issued, now, trips, del, aside>>

\* ---- DELETE /passengers/:id  [auth, admin] -------------------------------------------
\* trips a snapshot shows for a passenger id: Trip.deleteMany({ passengerId })
tripsOf(coll, id) == {t \in TripIds : coll[t].st = "live" /\ coll[t].passengerId = id}

\* a finally block that ends the session only after a success
endsSessionOnSuccess(session, err) == session = "open" /\ err = ""

\* whether the finally block ends the session
endsSession(session, err) == session = "open"

\* a catch block without the branch for 'Passenger not found'
delResponseNoBranch(err) ==
    IF err = "" THEN Ok(200) ELSE handleErrorP(err, "Failed to delete passenger")

\* the response of the handler: res.json on success (err = ""), else the catch
\* block, which answers 'Passenger not found' itself and hands the rest to
\* handleError
delResponse(err) ==
    IF err = "" THEN Ok(200)
    ELSE IF err = "Passenger not found" THEN NotFound("Passenger not found")
    ELSE handleErrorP(err, "Failed to delete passenger")

\* Passenger.findById(passengerId).session(session) and the throw that follows
\* a null result: the error raised ("" when the passenger was found); the id
\* is cast before the query is sent
findOutcome(id, qh) ==
    IF id = BadId THEN "CastError"
    ELSE IF qh # "ok" THEN qh
    ELSE IF ~IsLive(passengers, PassengerIds, id) THEN "Passenger not found"
    ELSE ""

\* the end of the handler: res.json on success, the catch block on an error,
\* then finally { if (session) await session.endSession() }
DelFinish(id, a, session, err) ==
    /\ last' = [Done("passengerDelete", a, TRUE, delResponse(err),
                     [started |-> IF session = "null" THEN 0 ELSE 1,
                      ended |-> IF endsSession(session, err) THEN 1 ELSE 0])
                  EXCEPT !.target = id]
    /\ del' = Idle

\* the middleware chain, then the handler up to the start of the transaction:
\* dbConnect() (the cache holds the handle auth obtained) and startSession(),
\* whose outcome is s; session is still null when startSession throws
DelRequest(id, hdr, c, q, s) ==
    /\ del.pc = "idle"
    /\ c \in ConnOutcomes /\ q \in AuthQ(hdr, c)
    /\ cached' = connectDB(c)
    /\ \/ Rejected("passengerDelete", hdr, c, q) /\ UNCHANGED del
       \/ /\ gate(hdr, c, q).nexts = 1
          /\ IF s = "ok"
               THEN /\ del' = [Idle EXCEPT !.pc = "find", !.id = id, !.session = "open",
                                           !.auth = auth(hdr, c, q)]
                    /\ UNCHANGED last
               ELSE DelFinish(id, auth(hdr, c, q), "null", s)
    /\ UNCHANGED <<users, issued, now, passengers, trips, aside>>

\* the part of the Trip collection a transaction on passenger id reads: the
\* trips that carry the id
tripSnapshot(id) ==
    [t \in TripIds |-> IF t \in tripsOf(trips, id) THEN trips[t] ELSE FreeTrip]

\* withTransaction runs its callback again after a write conflict, in a new
\* transaction with a new snapshot
Retry == [del EXCEPT !.pc = "find", !.psnap = FreePassenger,
                     !.tsnap = [t \in TripIds |-> FreeTrip], !.locked = {}]

\* withTransaction: Passenger.findById(passengerId).session(session); the first
\* operation fixes the snapshot the transaction reads from
DelFind(qh) ==
    /\ del.pc = "find"
    /\ IF findOutcome(del.id, qh) # ""
         THEN DelFinish(del.id, del.auth, del.session, findOutcome(del.id, qh))
       ELSE /\ del' = [del EXCEPT !.pc = "deleteTrips", !.psnap = passengers[del.id],
                                  !.tsnap = tripSnapshot(del.id)]
            /\ UNCHANGED last
    /\ UNCHANGED <<cached, users, issued, now, passengers, trips, aside>>

\* Trip.deleteMany({ passengerId }).session(session): deletes the trips the
\* snapshot shows; a trip written since the snapshot is a write conflict, on
\* which withTransaction runs the callback again
DelTrips(qh) ==
    /\ del.pc = "deleteTrips"
    /\ IF qh # "ok" THEN DelFinish(del.id, del.auth, del.session, qh)
       ELSE /\ del' = IF \E t \in tripsOf(del.tsnap, del.id) : trips[t] # del.tsnap[t]
                        THEN Retry
                        ELSE [del EXCEPT !.pc = "deletePassenger",
                                         !.locked = tripsOf(del.tsnap, del.id)]
            /\ UNCHANGED last
    /\ UNCHANGED <<cached, users, issued, now, passengers, trips, aside>>

\* Passenger.findByIdAndDelete(passengerId).session(session)
DelPassenger(qh) ==
    /\ del.pc = "deletePassenger"
    /\ IF qh # "ok" THEN DelFinish(del.id, del.auth, del.session, qh)
       ELSE /\ del' = IF passengers[del.id] # del.psnap
                        THEN Retry
                        ELSE [del EXCEPT !.pc = "commit"]
            /\ UNCHANGED last
    /\ UNCHANGED <<cached, users, issued, now, passengers, trips, aside>>

\* what the commit of the transaction makes visible, at once
commitPassengers == [passengers EXCEPT ![del.id] = [FreePassenger EXCEPT !.st = "gone"]]
\* a commit that leaves the trips in place
commitPassengerOnly == trips

commitTrips ==
    [t \in TripIds |-> IF t \in del.locked THEN [FreeTrip EXCEPT !.st = "gone"] ELSE trips[t]]

\* the commit at the end of withTransaction: both deletions become visible at
\* once, or the transaction aborts and none does
DelCommit(qh) ==
    /\ del.pc = "commit"
    /\ IF qh = "ok"
         THEN /\ passengers' = commitPassengers
              /\ trips' = commitTrips
              /\ DelFinish(del.id, del.auth, del.session, "")
         ELSE /\ DelFinish(del.id, del.auth, del.session, qh)
              /\ UNCHANGED <<passengers, trips>>
    /\ UNCHANGED <<cached, users, issued, now, aside>>

\* ---- trips (no middleware in front) --------------------------------------------------
\* a response of an unauthenticated route
Plain(op, r) ==
    last' = Done(op, NotRun, TRUE, r, NoSess)

\* body values that are not integers: the number k + 1/2 is written Half + k
Half == 1000
IsFraction(v) == v >= Half

\* parseInt(v): NaN for a value that is not numeric, the integer part of a
\* number that has a fraction
parseInt(v) == IF v = NaN THEN NaN ELSE IF IsFraction(v) THEN v - Half ELSE v

\* parseInt(numberOfPassengers) when the body carries one, else null
parseCount(n) == IF n = Absent \/ n = Null THEN Null ELSE parseInt(n)

\* a schema without the min and the integer validator
countValidAnyNumber(n) == n = Null \/ n # NaN

\* the schema's validator of numberOfPassengers (min: 1, integer, or null);
\* NaN does not cast to Number
countValid(n) == n = Null \/ (n # NaN /\ n >= 1)

\* ---- trip dates ---------------------------------------------------------------------
\* calendar days are numbered; the day that comes out of a conversion can lie
\* one before or one after the days the requests name
MaxDay == 2
Days == 1..MaxDay
\* a string of the shape dddd-dd-dd that names no calendar day ("2024-13-45")
NoSuchDay == -1
\* the hours of the day and the UTC offsets (in hours) of the timestamps sent
Hours == {0, 12, 23}
Offsets == {-5, 0, 5}
\* "YYYY-MM-DD"
DateString(d) == [kind |-> "date", day |-> d, hour |-> 0, offset |-> 0]
\* "YYYY-MM-DDThh:00:00+oo:00"
Timestamp(d, h, o) == [kind |-> "timestamp", day |-> d, hour |-> h, offset |-> o]
\* a Date object made for hour h of day d in a zone o hours ahead of UTC
NativeDate(d, h, o) == [kind |-> "native", day |-> d, hour |-> h, offset |-> o]
\* a string that new Date() cannot parse
NotADate == [kind |-> "text", day |-> 0, hour |-> 0, offset |-> 0]
\* the body carries no tripDate
NoDate == [kind |-> "absent", day |-> 0, hour |-> 0, offset |-> 0]
\* formatTripDate threw
DateError == [kind |-> "error", day |-> 0, hour |-> 0, offset |-> 0]

\* new Date(x).toISOString().split('T')[0]: the UTC day of the instant
utcDay(x) == (x.day * 24 + x.hour - x.offset) \div 24
\* formatTripDate(dateInput): a string of the shape dddd-dd-dd as it is,
\* anything else through new Date()
formatTripDate(x) ==
    IF x.kind = "date" THEN x
    ELSE IF x.kind \in {"timestamp", "native"} THEN DateString(utcDay(x))
    ELSE DateError

\* POST /trips on a Trip collection: the response and the collection
\* afterwards; the bodies of the model carry confirmed: true
tripCreate(coll, passengerId, tripDate, n, c, qh) ==
    LET id == FreshId(coll, TripIds)
        keep(r) == [resp |-> r, trips |-> coll]
    IN
    IF c # "ok" THEN keep(handleError(c, "Failed to create trip"))
    ELSE IF passengerId = EmptyStr \/ tripDate = NoDate
      THEN keep(Invalid("All fields are required"))
    ELSE IF formatTripDate(tripDate) = DateError
      THEN keep(Invalid("Invalid trip date format"))
    ELSE IF ~countValid(parseCount(n))
      THEN keep(handleError("ValidationError", "Failed to create trip"))
    ELSE IF qh # "ok" THEN keep(handleError(qh, "Failed to create trip"))
    ELSE [resp |-> Ok(201),
          trips |-> [coll EXCEPT ![id] =
                       [st |-> "live", passengerId |-> passengerId,
                        tripDate |-> formatTripDate(tripDate), confirmed |-> TRUE,
                        numberOfPassengers |-> parseCount(n)]]]

\* POST /trips
TripCreate(passengerId, tripDate, n, c, qh) ==
    /\ c \in ConnOutcomes
    /\ cached' = connectDB(c)
    /\ LET r == tripCreate(trips, passengerId, tripDate, n, c, qh) IN
       /\ r.resp.status = 201 => FreshId(trips, TripIds) # 0
       /\ trips' = r.trips
       /\ Plain("tripCreate", r.resp)
    /\ UNCHANGED <<users, issued, now, passengers, del, aside>>

\* Trip.findById(id) and its relatives
lookupT(id, qh, customMessage) == lookup(trips, TripIds, id, qh, customMessage)

\* PUT /trips/:id on a Trip collection: the response and the collection
\* afterwards
tripUpdate(coll, id, passengerId, tripDate, n, c, qh) ==
    LET found == lookup(coll, TripIds, id, qh, "Failed to update trip")
        keep(r) == [resp |-> r, trips |-> coll]
    IN
    IF c # "ok" THEN keep(handleError(c, "Failed to update trip"))
    ELSE IF passengerId = EmptyStr \/ tripDate = NoDate
      THEN keep(Invalid("All fields are required"))
    ELSE IF formatTripDate(tripDate) = DateError
      THEN keep(Invalid("Invalid trip date format"))
    ELSE IF id # BadId /\ parseCount(n) = NaN
      THEN keep(handleError("CastError", "Failed to update trip"))
    ELSE IF id # BadId /\ ~countValid(parseCount(n))
      THEN keep(handleError("ValidationError", "Failed to update trip"))
    ELSE IF found.status # 200 THEN keep(found)
    ELSE [resp |-> Ok(200),
          trips |-> [coll EXCEPT ![id] =
                       [st |-> "live", passengerId |-> passengerId,
                        tripDate |-> formatTripDate(tripDate), confirmed |-> TRUE,
                        numberOfPassengers |-> parseCount(n)]]]

\* PUT /trips/:id
TripUpdate(id, passengerId, tripDate, n, c, qh) ==
    /\ c \in ConnOutcomes
    /\ cached' = connectDB(c)
    /\ LET r == tripUpdate(trips, id, passengerId, tripDate, n, c, qh) IN
       /\ r.resp.status = 200 => id \notin LockedTrips
       /\ trips' = r.trips
       /\ Plain("tripUpdate", r.resp)
    /\ UNCHANGED <<users, issued, now, passengers, del, aside>>

\* GET /trips/:id: the response
tripGet(coll, id, c, qh) ==
    IF c # "ok" THEN handleError(c, "Failed to fetch trip")
    ELSE lookup(coll, TripIds, id, qh, "Failed to fetch trip")

TripGet(id, c, qh) ==
    /\ c \in ConnOutcomes
    /\ cached' = connectDB(c)
    /\ Plain("tripGet", tripGet(trips, id, c, qh))
    /\ UNCHANGED <<users, issued, now, passengers, trips, del, aside>>

\* PATCH /trips/:id/confirm on a Trip collection: the response and the
\* collection afterwards; NoField is a body without the field
tripConfirm(coll, id, confirmed, c, qh) ==
    LET found == lookup(coll, TripIds, id, qh, "Failed to confirm trip")
        keep(r) == [resp |-> r, trips |-> coll]
    IN
    IF c # "ok" THEN keep(handleError(c, "Failed to confirm trip"))
    ELSE IF confirmed = NoField THEN keep(Invalid("Confirmed field is required"))
    ELSE IF found.status # 200 THEN keep(found)
    ELSE [resp |-> Ok(200), trips |-> [coll EXCEPT ![id].confirmed = confirmed = "true"]]

TripConfirm(id, confirmed, c, qh) ==
    /\ c \in ConnOutcomes
    /\ cached' = connectDB(c)
    /\ LET r == tripConfirm(trips, id, confirmed, c, qh) IN
       /\ r.resp.status = 200 => id \notin LockedTrips
       /\ trips' = r.trips
       /\ Plain("tripConfirm", r.resp)
    /\ UNCHANGED <<users, issued, now, passengers, del, aside>>

\* GET /trips/date/:date on a Trip collection: the response and the trips in it
tripsByDate(coll, dateParam, c, qh) ==
    LET none(r) == [resp |-> r, found |-> {}] IN
    IF c # "ok" THEN none(handleError(c, "Failed to fetch trips by date"))
    ELSE IF formatTripDate(dateParam) = DateError
      THEN none(Invalid("Invalid date format. Use YYYY-MM-DD format"))
    ELSE IF qh # "ok" THEN none(handleError(qh, "Failed to fetch trips by date"))
    ELSE [resp |-> Ok(200),
          found |-> {t \in TripIds : coll[t].st = "live"
                                    /\ coll[t].tripDate = formatTripDate(dateParam)}]

\* GET /trips/date/:date
TripsByDate(dateParam, c, qh) ==
    /\ c \in ConnOutcomes
    /\ cached' = connectDB(c)
    /\ Plain("tripsByDate", tripsByDate(trips, dateParam, c, qh).resp)
    /\ UNCHANGED <<users, issued, now, passengers, trips, del, aside>>

\* DELETE /trips/:id
TripDelete(id, c, qh) ==
    /\ c \in ConnOutcomes
    /\ cached' = connectDB(c)
    /\ LET found == lookupT(id, qh, "Failed to delete trip") IN
       IF c # "ok"
         THEN Plain("tripDelete", handleError(c, "Failed to delete trip"))
              /\ UNCHANGED trips
       ELSE /\ found.status = 200 => id \notin LockedTrips
            /\ Plain("tripDelete", found)
            /\ trips' = IF found.status = 200
                          THEN [trips EXCEPT ![id] = [FreeTrip EXCEPT !.st = "gone"]]
                          ELSE trips
    /\ UNCHANGED <<users, issued, now, passengers, del, aside>>

\* ---- the update documents of the counter routes ----------------------------------------
\* { $inc: { numberOfPassengers: 1 }, $setOnInsert: { numberOfPassengers: 2 } }
incrementUpdate ==
    [inc |-> [numberOfPassengers |-> 1], setOnInsert |-> [numberOfPassengers |-> 2]]
\* { $inc: { numberOfPassengers: -1 }, $setOnInsert: { numberOfPassengers: 1 } }
decrementUpdate ==
    [inc |-> [numberOfPassengers |-> -1], setOnInsert |-> [numberOfPassengers |-> 1]]

\* the server parses the update document before it looks for a document: two
\* operators that name the same path are rejected (ConflictingUpdateOperators,
\* "Updating the path 'x' would create a conflict at 'x'"), upsert or not
pathConflict(u) == (DOMAIN u.inc) \cap (DOMAIN u.setOnInsert) # {}

\* { _id: id } of findByIdAndUpdate: no condition on the count
incrementFilter == [or |-> FALSE, gt |-> 0]
\* { _id: id, $or: [{ numberOfPassengers: { $gt: 1 } },
\*                  { numberOfPassengers: { $exists: false } }] }
decrementFilter == [or |-> TRUE, gt |-> 1]

\* whether a stored document matches a filter; a stored null is a field that
\* exists and is not greater than any number
matches(filter, doc) ==
    /\ doc.st = "live"
    /\ filter.or =>
          \/ (doc.numberOfPassengers \notin {Null, Absent}
                /\ doc.numberOfPassengers > filter.gt)
          \/ doc.numberOfPassengers = Absent

\* an update that skips the parse of the update document and the filter's
\* condition on the count
findOneAndUpdateUnfiltered(id, filter, u, qh) ==
    IF id = BadId THEN [res |-> "CastError", doc |-> FreeTrip]
    ELSE IF qh # "ok" THEN [res |-> qh, doc |-> FreeTrip]
    ELSE IF id \notin TripIds \/ trips[id].st # "live" THEN [res |-> "null", doc |-> FreeTrip]
    ELSE [res |-> "ok",
          doc |-> [trips[id] EXCEPT !.numberOfPassengers =
                     IF @ \in {Absent, Null} THEN u.inc.numberOfPassengers
                     ELSE @ + u.inc.numberOfPassengers]]

\* findOneAndUpdate(filter, u, { new: true, upsert: false }) on trip id:
\* an error name, "null" when no document matches, or "ok" with the new document
findOneAndUpdate(id, filter, u, qh) ==
    IF id = BadId THEN [res |-> "CastError", doc |-> FreeTrip]
    ELSE IF qh # "ok" THEN [res |-> qh, doc |-> FreeTrip]
    ELSE IF pathConflict(u) THEN [res |-> "MongoServerError", doc |-> FreeTrip]
    ELSE IF id \notin TripIds \/ ~matches(filter, trips[id]) THEN [res |-> "null", doc |-> FreeTrip]
    ELSE IF trips[id].numberOfPassengers = Null
      THEN [res |-> "MongoServerError", doc |-> FreeTrip]
    ELSE [res |-> "ok",
          doc |-> [trips[id] EXCEPT !.numberOfPassengers =
                     IF @ = Absent THEN u.inc.numberOfPassengers
                     ELSE @ + u.inc.numberOfPassengers]]

\* a counter route: the update, then the answer for null / error / document;
\* the result is the response and the Trip collection afterwards
counterRoute(id, filter, u, onNull, customMessage, c, qh) ==
    LET f == findOneAndUpdate(id, filter, u, qh) IN
    IF c # "ok" THEN [resp |-> handleError(c, customMessage), trips |-> trips]
    ELSE IF f.res = "null" THEN [resp |-> onNull, trips |-> trips]
    ELSE IF f.res # "ok" THEN [resp |-> handleError(f.res, customMessage), trips |-> trips]
    ELSE [resp |-> Ok(200), trips |-> [trips EXCEPT ![id] = f.doc]]

\* PATCH /trips/:id/passengers/increment
increment(id, c, qh) ==
    counterRoute(id, incrementFilter, incrementUpdate,
                 NotFound("Trip not found"), "Failed to increment passengers", c, qh)

\* PATCH /trips/:id/passengers/decrement
decrement(id, c, qh) ==
    counterRoute(id, decrementFilter, decrementUpdate,
                 Invalid("Number of passengers cannot be less than 1"),
                 "Failed to decrement passengers", c, qh)

TripIncrement(id, c, qh) ==
    /\ c \in ConnOutcomes
    /\ cached' = connectDB(c)
    /\ increment(id, c, qh).trips # trips => id \notin LockedTrips
    /\ trips' = increment(id, c, qh).trips
    /\ Plain("increment", increment(id, c, qh).resp)
    /\ UNCHANGED <<users, issued, now, passengers, del, aside>>

TripDecrement(id, c, qh) ==
    /\ c \in ConnOutcomes
    /\ cached' = connectDB(c)
    /\ decrement(id, c, qh).trips # trips => id \notin LockedTrips
    /\ trips' = decrement(id, c, qh).trips
    /\ Plain("decrement", decrement(id, c, qh).resp)
    /\ UNCHANGED <<users, issued, now, passengers, del, aside>>

\* PATCH /trips/:id/passengers/set with body value v: the response and the
\* Trip collection afterwards
setCount(id, v, c, qh) ==
    LET passengerCount == parseInt(v)
        found == lookupT(id, qh, "Failed to set passengers")
    IN
    IF c # "ok" THEN [resp |-> handleError(c, "Failed to set passengers"), trips |-> trips]
    ELSE IF v = Absent \/ v = Null
      THEN [resp |-> Invalid("numberOfPassengers field is required"), trips |-> trips]
    ELSE IF passengerCount = NaN \/ passengerCount < 1
      THEN [resp |-> Invalid("numberOfPassengers must be a positive integer"),
            trips |-> trips]
    ELSE IF found.status # 200 THEN [resp |-> found, trips |-> trips]
    ELSE [resp |-> Ok(200),
          trips |-> [trips EXCEPT ![id].numberOfPassengers = passengerCount]]

TripSet(id, v, c, qh) ==
    /\ c \in ConnOutcomes
    /\ cached' = connectDB(c)
    /\ setCount(id, v, c, qh).trips # trips => id \notin LockedTrips
    /\ trips' = setCount(id, v, c, qh).trips
    /\ Plain("set", setCount(id, v, c, qh).resp)
    /\ UNCHANGED <<users, issued, now, passengers, del, aside>>

\* ---- /sites -----------------------------------------------------------------------
\* handleError of siteRoutes: no branch for CastError
handleErrorS(name, customMessage) ==
    IF name = "ValidationError"
      THEN Resp(400, "Validation failed", "validation message", NoField)
    ELSE IF IncludesMongo(name)
      THEN Resp(503, "Database service unavailable", "Please try again later", NoField)
    ELSE Resp(500, customMessage, NoField, NoField)

\* Number.isInteger(v) of a body value
isInteger(v) == v \notin {Absent, Null, NaN} /\ ~IsFraction(v)

\* { $set: updateData } on a stored site; a field that updateData lacks
\* (Absent) stays as it is
setFields(doc, updateData) ==
    [st |-> "live",
     currentPOB |-> IF updateData.currentPOB = Absent THEN doc.currentPOB
                    ELSE updateData.currentPOB,
     maximumPOB |-> IF updateData.maximumPOB = Absent THEN doc.maximumPOB
                    ELSE updateData.maximumPOB,
     pobUpdatedDate |-> IF updateData.pobUpdatedDate = Absent THEN doc.pobUpdatedDate
                        ELSE updateData.pobUpdatedDate]

\* an update that never writes pobUpdatedDate
siteUpdateNoDate(coll, name, updateData, upsert) ==
    IF name \notin SiteNames \/ (coll[name].st # "live" /\ ~upsert) THEN coll
    ELSE [coll EXCEPT ![name] =
            setFields(@, [updateData EXCEPT !.pobUpdatedDate = Absent])]

\* Site.findOneAndUpdate({ siteName }, { $set: updateData }, { upsert }): the
\* collection afterwards; an upsert inserts the filter's siteName and the
\* fields of updateData, and nothing else
siteFindOneAndUpdate(coll, name, updateData, upsert) ==
    IF name \notin SiteNames THEN coll
    ELSE IF coll[name].st = "live" THEN [coll EXCEPT ![name] = setFields(@, updateData)]
    ELSE IF upsert THEN [coll EXCEPT ![name] = setFields(FreeSite, updateData)]
    ELSE coll

\* PUT /sites/:siteName/pob: the response and the Site collection afterwards
sitePob(siteName, currentPOB, maximumPOB, c, qh) ==
    LET updateData == [currentPOB |-> currentPOB, maximumPOB |-> maximumPOB,
                       pobUpdatedDate |-> now]
        keep(r) == [resp |-> r, sites |-> sites]
    IN
    IF c # "ok" THEN keep(handleErrorS(c, "Failed to update POB"))
    ELSE IF Trim(siteName) = "" THEN keep(Invalid("Site name is required"))
    ELSE IF currentPOB = Absent \/ currentPOB = Null
      THEN keep(Invalid("currentPOB field is required"))
    ELSE IF ~isInteger(currentPOB) \/ currentPOB < 0
      THEN keep(Invalid("currentPOB must be a non-negative integer"))
    ELSE IF maximumPOB # Absent /\ (~isInteger(maximumPOB) \/ maximumPOB <= 0)
      THEN keep(Invalid("maximumPOB must be a positive integer"))
    ELSE IF qh # "ok" THEN keep(handleErrorS(qh, "Failed to update POB"))
    ELSE [resp |-> Ok(200),
          sites |-> siteFindOneAndUpdate(sites, Trim(siteName), updateData, TRUE)]

\* PUT /sites/:siteName: the response and the Site collection afterwards
siteUpdate(siteName, maximumPOB, currentPOB, c, qh) ==
    LET updateData == [currentPOB |-> currentPOB, maximumPOB |-> maximumPOB,
                       pobUpdatedDate |-> IF currentPOB # Absent THEN now ELSE Absent]
        keep(r) == [resp |-> r, sites |-> sites]
    IN
    IF c # "ok" THEN keep(handleErrorS(c, "Failed to update site"))
    ELSE IF Trim(siteName) = "" THEN keep(Invalid("Site name is required"))
    ELSE IF maximumPOB # Absent /\ (~isInteger(maximumPOB) \/ maximumPOB <= 0)
      THEN keep(Invalid("maximumPOB must be a positive integer"))
    ELSE IF currentPOB # Absent /\ (~isInteger(currentPOB) \/ currentPOB < 0)
      THEN keep(Invalid("currentPOB must be a non-negative integer"))
    ELSE IF maximumPOB = Absent /\ currentPOB = Absent
      THEN keep(Invalid("No valid fields to update"))
    ELSE IF qh # "ok" THEN keep(handleErrorS(qh, "Failed to update site"))
    ELSE IF Trim(siteName) \notin SiteNames \/ sites[Trim(siteName)].st # "live"
      THEN keep(NotFound("Site not found"))
    ELSE [resp |-> Ok(200),
          sites |-> siteFindOneAndUpdate(sites, Trim(siteName), updateData, FALSE)]

\* GET /sites/:siteName: the response
siteGet(siteName, c, qh) ==
    IF c # "ok" THEN handleErrorS(c, "Failed to fetch site")
    ELSE IF Trim(siteName) = "" THEN Invalid("Site name is required")
    ELSE IF qh # "ok" THEN handleErrorS(qh, "Failed to fetch site")
    ELSE IF Trim(siteName) \notin SiteNames \/ sites[Trim(siteName)].st # "live"
      THEN NotFound("Site not found")
    ELSE Ok(200)

\* the seed of a location: $setOnInsert of the bulk operation
seed(date) == [st |-> "live", currentPOB |-> 0, maximumPOB |-> defaultMaximumPOB,
               pobUpdatedDate |-> date]

\* a bulk operation that writes its fields whether or not the site exists
bulkWriteSet(coll, done, date) ==
    [n \in SiteNames |->
       IF \E i \in 1..done : locations[i] = n THEN seed(date) ELSE coll[n]]

\* Site.bulkWrite(operations): the first `done` operations take effect, in
\* order (all of them unless an error stops the batch); an operation inserts
\* the seed when no site has the name and changes nothing otherwise
bulkWrite(coll, done, date) ==
    [n \in SiteNames |->
       IF (\E i \in 1..done : locations[i] = n) /\ coll[n].st # "live"
         THEN seed(date) ELSE coll[n]]

\* POST /sites/initialize: the batch stops after `done` operations with error
\* qh when done is short of the whole list; then Site.find() with outcome qf
initialize(c, done, qh, qf) ==
    IF c # "ok"
      THEN [resp |-> handleErrorS(c, "Failed to initialize sites"), sites |-> sites]
    ELSE IF done < Len(locations)
      THEN [resp |-> handleErrorS(qh, "Failed to initialize sites"),
            sites |-> bulkWrite(sites, done, now)]
    ELSE IF qf # "ok"
      THEN [resp |-> handleErrorS(qf, "Failed to initialize sites"),
            sites |-> bulkWrite(sites, done, now)]
    ELSE [resp |-> Ok(201), sites |-> bulkWrite(sites, done, now)]

\* a request to /sites is answered with r and leaves the collection as s
SiteRequest(op, c, r) ==
    /\ c \in ConnOutcomes
    /\ cached' = connectDB(c)
    /\ sites' = r.sites
    /\ Plain(op, r.resp)
    /\ UNCHANGED <<users, issued, now, passengers, trips, del, connVars, writes>>

SitePob(siteName, currentPOB, maximumPOB, c, qh) ==
    SiteRequest("sitePob", c, sitePob(siteName, currentPOB, maximumPOB, c, qh))

SiteUpdate(siteName, maximumPOB, currentPOB, c, qh) ==
    SiteRequest("siteUpdate", c, siteUpdate(siteName, maximumPOB, currentPOB, c, qh))

SiteInitialize(c, done, qh, qf) ==
    /\ done \in 0..Len(locations)
    /\ done < Len(locations) => qh \in QueryErrors
    /\ SiteRequest("initialize", c, initialize(c, done, qh, qf))

\* ---- specifications ----------------------------------------------------------------------
OptFlag == {NoField, "true", "false"}
UserPaths == KnownIds(users, UserIds)
PassengerPaths == KnownIds(passengers, PassengerIds)
TripPaths == KnownIds(trips, TripIds)

\* the headers of well-behaved clients: none, or 'Bearer ' and a token they hold
ClientHeaders ==
    {NoHeader} \cup {[present |-> TRUE, bearer |-> TRUE, tok |-> t] : t \in issued}

\* accounts are created and log in
Accounts(names) ==
    \/ \E u \in names, a \in BOOLEAN, c \in ConnOutcomes, q \in QueryOutcomes :
          Register(u, "password1", TRUE, a, c, q)
    \/ \E u \in names, p \in {"password1", "short"}, c \in ConnOutcomes, q \in QueryOutcomes :
          Login(u, p, c, q)

\* the administration of accounts: GET/PUT/DELETE /users...  [auth, admin]
UserAdmin(hs, qhs, flags) ==
    \/ \E h \in hs, c \in ConnOutcomes, qh \in qhs :
          \E q \in AuthQ(h, c) : UserList(h, c, q, qh)
    \/ \E id \in UserPaths, h \in hs, c \in ConnOutcomes, qh \in qhs :
          \E q \in AuthQ(h, c) : UserGet(id, h, c, q, qh)
    \/ \E id \in UserPaths, a \in flags, h \in hs, c \in ConnOutcomes, qh \in qhs :
          \E q \in AuthQ(h, c) : UserUpdate(id, NoField, a, NoField, h, c, q, qh)
    \/ \E id \in UserPaths, h \in hs, c \in ConnOutcomes, qh \in qhs :
          \E q \in AuthQ(h, c) : UserDelete(id, h, c, q, qh)

\* POST/PUT /passengers...  [auth, admin]
PassengerAdmin(firstNames, hs, qhs) ==
    \/ \E f \in firstNames, h \in hs, c \in ConnOutcomes, qh \in qhs :
          \E q \in AuthQ(h, c) : PassengerCreate(f, "Lee", h, c, q, qh)
    \/ \E id \in PassengerPaths, f \in firstNames, h \in hs, c \in ConnOutcomes, qh \in qhs :
          \E q \in AuthQ(h, c) : PassengerUpdate("passengerUpdate", id, f, "Lee", h, c, q, qh)
    \/ \E id \in PassengerPaths \cup {EmptyStr}, f \in firstNames, h \in hs,
          c \in ConnOutcomes, qh \in qhs :
          \E q \in AuthQ(h, c) :
             PassengerUpdate("passengerUpdateBody", id, f, "Lee", h, c, q, qh)

\* DELETE /passengers/:id: the middleware chain, then the handler step by step
PassengerDelete(hs) ==
    \/ \E id \in PassengerPaths, h \in hs, c \in ConnOutcomes, s \in QueryOutcomes :
          \E q \in AuthQ(h, c) : DelRequest(id, h, c, q, s)
    \/ \E qh \in QueryOutcomes : DelFind(qh)
    \/ \E qh \in QueryOutcomes : DelTrips(qh)
    \/ \E qh \in QueryOutcomes : DelPassenger(qh)
    \/ \E qh \in QueryOutcomes : DelCommit(qh)

\* Spec: accounts, tokens, time and the two authentication middlewares
Next ==
    \/ Tick
    \/ ConnectionLost
    \/ Accounts({"amy", "al"})
    \/ \E h \in Headers, c \in ConnOutcomes, qh \in QueryOutcomes :
          \E q \in AuthQ(h, c) : UserMe(h, c, q, qh)
    \/ \E h \in Headers, c \in ConnOutcomes :
          \E q \in OptQ(h, c) : OptionalRequest(h, c, q)
    \/ UserAdmin(ClientHeaders, {"ok"}, OptFlag)

Spec == Init /\ [][Next]_vars

\* SpecGate: every route behind [auth, admin], with an administrator (amy) and
\* an ordinary user (bob) who registered and logged in before the process was
\* restarted: their tokens are still good, the connection cache is empty
InitGate ==
    /\ cached = [conn |-> FALSE, promise |-> FALSE]
    /\ users = [i \in UserIds |->
                  IF i = 1 THEN [st |-> "live", userName |-> "amy",
                                 password |-> Hash("password1"), isAdmin |-> TRUE]
                  ELSE IF i = 2 THEN [st |-> "live", userName |-> "bob",
                                      password |-> Hash("password1"), isAdmin |-> FALSE]
                  ELSE FreeUser]
    /\ issued = {jwtSign(1, TRUE, 0), jwtSign(2, FALSE, 0)}
    /\ now = 0
    /\ passengers = [i \in PassengerIds |-> FreePassenger]
    /\ trips = [i \in TripIds |-> FreeTrip]
    /\ del = Idle
    /\ last = Done("none", NotRun, FALSE, Resp(0, NoField, NoField, NoField), NoSess)
    /\ NoCalls
    /\ sites = NoSites
    /\ writes = NoWrites

\* ---- the handlers behind the routes ---------------------------------------------------
\* app.use((req, res, next) => ...): no route matched the request
endpointNotFound == Resp(404, "Endpoint not found", NoField, NoField)
\* app.use((err, req, res, next) => ...): an error reached the application
internalServerError == Resp(500, "Internal Server Error", "Something went wrong", NoField)

\* a request to a path that no router serves
NoRoute ==
    /\ last' = Done("noRoute", NotRun, FALSE, endpointNotFound, NoSess)
    /\ UNCHANGED <<cached, users, issued, now, passengers, trips, del, aside>>

NextGate ==
    \/ NoRoute
    \/ UserAdmin(ClientHeaders, {"ok"}, {NoField})
    \/ PassengerAdmin({"", "Ann"}, ClientHeaders, {"ok"})
    \/ PassengerDelete(ClientHeaders)

SpecGate == InitGate /\ [][NextGate]_vars

\* the routes of /trips
Trips(pids, counts, qhs) ==
    \/ \E pid \in pids, n \in counts, c \in ConnOutcomes, qh \in qhs :
          TripCreate(pid, DateString(1), n, c, qh)
    \/ \E id \in TripPaths, pid \in pids, n \in counts, c \in ConnOutcomes,
          qh \in qhs : TripUpdate(id, pid, DateString(1), n, c, qh)
    \/ \E id \in TripPaths, c \in ConnOutcomes, qh \in qhs : TripDelete(id, c, qh)

\* SpecDel: passengers, their trips and the transactional deletion, requested
\* by the administrator while trips are created, changed and deleted
AdminHeaders == {h \in ClientHeaders : h.present /\ h.tok.isAdmin}

NextDel ==
    \/ \E h \in AdminHeaders, c \in ConnOutcomes :
          \E q \in AuthQ(h, c) : PassengerCreate("Ann", "Lee", h, c, q, "ok")
    \/ \E id \in PassengerPaths, f \in {"Ann", "Ben"}, h \in AdminHeaders, c \in ConnOutcomes :
          \E q \in AuthQ(h, c) : PassengerUpdate("passengerUpdate", id, f, "Lee", h, c, q, "ok")
    \/ PassengerDelete(AdminHeaders)
    \/ Trips(PassengerIds \cup {GhostId}, {Absent}, {"ok"})

SpecDel == InitGate /\ [][NextDel]_vars

\* numberOfPassengers in a request body: missing, not numeric, 0, 1, 2 and 2.5
CountInputs == {Absent, NaN, 0, 1, 2, Half + 2}

\* SpecTrip: trips and their passenger counters
NextTrip ==
    \/ ConnectionLost
    \/ Trips({GhostId, EmptyStr}, CountInputs, QueryOutcomes)
    \/ \E id \in TripPaths, v \in CountInputs, c \in ConnOutcomes, qh \in QueryOutcomes :
          TripSet(id, v, c, qh)
    \/ \E id \in TripPaths, c \in ConnOutcomes, qh \in QueryOutcomes : TripIncrement(id, c, qh)
    \/ \E id \in TripPaths, c \in ConnOutcomes, qh \in QueryOutcomes : TripDecrement(id, c, qh)

SpecTrip == Init /\ [][NextTrip]_vars

\* body values of the site routes that reach the store or miss it by one test
SiteNameInputs == {"Ogle", "Rig ", " "}
POBInputs == {Absent, 1, Half + 1}
\* where a failing batch stops: at once, after its first operation, or not at all
BatchStops == {0, 1, Len(locations)}
\* the clock of SpecSite: dates 0..MaxDates
MaxDates == 1
SiteTick == now < MaxDates /\ Tick

\* SpecUser: accounts, their passwords and their administration
NextUser ==
    \/ \E u \in {"amy", "bob"}, p \in {"password1", " password1"}, a \in BOOLEAN,
          c \in ConnOutcomes : Register(u, p, TRUE, a, c, "ok")
    \/ \E u \in {"amy", "bob"}, p \in {"password1", " password1", "password2"},
          c \in ConnOutcomes : Login(u, p, c, "ok")
    \/ \E cur \in {NoField, "password1"}, new \in {NoField, "short", "password2"},
          h \in ClientHeaders, c \in ConnOutcomes :
          \E q \in AuthQ(h, c) : ProfileUpdate(cur, new, h, c, q, "ok")
    \/ \E id \in UserPaths, u \in {NoField, "bob"}, a \in {NoField, "false"},
          p \in {NoField, "password1"}, h \in ClientHeaders, c \in ConnOutcomes :
          \E q \in AuthQ(h, c) : UserUpdate(id, u, a, p, h, c, q, "ok")

SpecUser == Init /\ [][NextUser]_vars

\* SpecAdmin: the administrator and the ordinary user of InitGate change admin
\* flags and read accounts with the tokens they hold, while time passes
NextAdmin ==
    \/ Tick
    \/ ConnectionLost
    \/ \E id \in UserPaths, a \in OptFlag, h \in ClientHeaders, c \in ConnOutcomes :
          \E q \in AuthQ(h, c) : UserUpdate(id, NoField, a, NoField, h, c, q, "ok")
    \/ \E id \in UserPaths, h \in ClientHeaders, c \in ConnOutcomes :
          \E q \in AuthQ(h, c) : UserGet(id, h, c, q, "ok")

SpecAdmin == InitGate /\ [][NextAdmin]_vars

\* the trip dates that a request can carry as JSON or in its path
DateSends ==
    {DateString(d) : d \in Days \cup {NoSuchDay}}
      \cup {Timestamp(d, h, o) : d \in Days, h \in Hours, o \in Offsets}
      \cup {NotADate}
\* SpecDate: trips are created, changed, confirmed, read and queried by date
NextDate ==
    \/ \E x \in DateSends \cup {NoDate}, c \in ConnOutcomes :
          TripCreate(1, x, Absent, c, "ok")
    \/ \E id \in TripPaths, x \in DateSends \cup {NoDate}, c \in ConnOutcomes :
          TripUpdate(id, 1, x, Absent, c, "ok")
    \/ \E x \in DateSends, c \in ConnOutcomes, qh \in QueryOutcomes :
          TripsByDate(x, c, qh)
    \/ \E id \in TripPaths, c \in ConnOutcomes, qh \in QueryOutcomes : TripGet(id, c, qh)
    \/ \E id \in TripPaths, f \in OptFlag, c \in ConnOutcomes, qh \in QueryOutcomes :
          TripConfirm(id, f, c, qh)

SpecDate == Init /\ [][NextDate]_vars

\* ---- requests between their reads and their save --------------------------------------
\* the slot of the next pending save (0: none left)
FreeWrite ==
    IF \E k \in WriteIds : writes[k] = NoWrite
      THEN CHOOSE k \in WriteIds : writes[k] = NoWrite /\ \A j \in WriteIds : j < k => writes[j] # NoWrite
      ELSE 0

\* POST /users/register runs up to its await user.save()
RegisterFind(userName, password, isAdminIn, c, q) ==
    /\ c \in ConnOutcomes
    /\ cached' = connectDB(c)
    /\ LET f == registerFind(users, userName, password, TRUE, isAdminIn, c, q) IN
       IF f.resp.status = 201
         THEN /\ FreeWrite # 0
              /\ writes' = [writes EXCEPT ![FreeWrite] = f.write]
              /\ UNCHANGED last
         ELSE /\ last' = Done("register", NotRun, TRUE, f.resp, NoSess)
              /\ UNCHANGED writes
    /\ UNCHANGED <<users, issued, now, passengers, trips, del, connVars, sites>>

\* PUT /users/:id  [auth, admin] runs up to its await user.save()
UserUpdateFind(id, userName, isAdminIn, password, hdr, c, q, qh) ==
    /\ c \in ConnOutcomes /\ q \in AuthQ(hdr, c)
    /\ cached' = connectDB(c)
    /\ \/ Rejected("userUpdate", hdr, c, q) /\ UNCHANGED writes
       \/ LET f == userUpdateFind(users, id, userName, isAdminIn, password, qh) IN
          /\ gate(hdr, c, q).nexts = 1
          /\ IF f.resp.status = 200
               THEN /\ FreeWrite # 0
                    /\ writes' = [writes EXCEPT ![FreeWrite] = f.write]
                    /\ UNCHANGED last
               ELSE /\ Handled("userUpdate", hdr, c, q, f.resp)
                    /\ UNCHANGED writes
    /\ UNCHANGED <<users, issued, now, passengers, trips, del, connVars, sites>>

\* the save of slot k reaches the store and its request is answered
Save(k) ==
    /\ writes[k] # NoWrite
    /\ LET r == save(users, writes[k], "Failed to save user") IN
       /\ r.resp.status = 201 => FreshId(users, UserIds) # 0
       /\ users' = r.users
       /\ last' = Done("save", NotRun, TRUE, r.resp, NoSess)
    /\ writes' = [writes EXCEPT ![k] = NoWrite]
    /\ UNCHANGED <<cached, issued, now, passengers, trips, del, connVars, sites>>

\* an administrator (amy) who logged in before any other account exists
InitRace ==
    /\ cached = [conn |-> FALSE, promise |-> FALSE]
    /\ users = [i \in UserIds |->
                  IF i = 1 THEN [st |-> "live", userName |-> "amy",
                                 password |-> Hash("password1"), isAdmin |-> TRUE]
                  ELSE FreeUser]
    /\ issued = {jwtSign(1, TRUE, 0)}
    /\ now = 0
    /\ passengers = [i \in PassengerIds |-> FreePassenger]
    /\ trips = [i \in TripIds |-> FreeTrip]
    /\ del = Idle
    /\ last = Done("none", NotRun, FALSE, Resp(0, NoField, NoField, NoField), NoSess)
    /\ NoCalls
    /\ sites = NoSites
    /\ writes = NoWrites

RaceNames == {"amy", "bob", "al"}
\* SpecRace: registrations and administrator updates whose reads and saves
\* interleave
NextRace ==
    \/ \E u \in RaceNames, c \in ConnOutcomes :
          RegisterFind(u, "password1", FALSE, c, "ok")
    \/ \E id \in UserPaths, u \in RaceNames \cup {NoField}, h \in ClientHeaders,
          c \in ConnOutcomes :
          \E q \in AuthQ(h, c) : UserUpdateFind(id, u, NoField, NoField, h, c, q, "ok")
    \/ \E k \in WriteIds : Save(k)

SpecRace == InitRace /\ [][NextRace]_vars

\* SpecSite: the Site collection over time
NextSite ==
    \/ SiteTick
    \/ \E s \in SiteNameInputs, cur \in POBInputs, max \in POBInputs,
          c \in ConnOutcomes, qh \in QueryOutcomes : SitePob(s, cur, max, c, qh)
    \/ \E s \in SiteNameInputs, cur \in POBInputs, max \in POBInputs,
          c \in ConnOutcomes, qh \in QueryOutcomes : SiteUpdate(s, max, cur, c, qh)
    \/ \E c \in ConnOutcomes, done \in BatchStops, qh \in QueryOutcomes,
          qf \in QueryOutcomes : SiteInitialize(c, done, qh, qf)

SpecSite == Init /\ [][NextSite]_vars

\* SpecConn: calls of connectDB(), the attempts they start and the events of
\* the connection
NextConn ==
    \/ \E k \in CallIds : Call(k)
    \/ \E a \in AttemptIds : Resolve(a)
    \/ \E a \in AttemptIds : Reject(a)
    \/ \E e \in ConnectionEvents : Event(e)
    \/ \E k \in CallIds : Finish(k)

SpecConn == Init /\ [][NextConn]_vars

\* ---- properties of the strict and the optional authentication -------------------
\* a request carrying token t after the 'Bearer ' prefix
Bearer(t) == [present |-> TRUE, bearer |-> TRUE, tok |-> t]

\* every request the strict middleware can meet in the current state: its
\* header, the outcome of dbConnect() and of the user lookup
AuthRequests ==
    {r \in [hdr : Headers, c : ConnResults, q : QueryOutcomes \cup {"unused"}] :
        r.c \in ConnOutcomes /\ r.q \in AuthQ(r.hdr, r.c)}

\* every request the optional middleware can meet in the current state
OptRequests ==
    {r \in [hdr : Headers, c : ConnResults, q : QueryOutcomes \cup {"unused"}] :
        /\ r.c \in (IF optionalConnects(r.hdr) THEN ConnOutcomes ELSE {"ok"})
        /\ r.q \in OptQ(r.hdr, r.c)}

\* the database answered: the connection was obtained and the lookup, if made,
\* returned
DbAnswers(r) == r.c = "ok" /\ r.q \in {"ok", "unused"}

\* the middleware answered 401 with this error and did not call next
Rejects401(a, error) ==
    a.nexts = 0 /\ a.sends = 1 /\ a.resp.status = 401 /\ a.resp.error = error

\* the four rejections of the strict middleware, in their order of precedence
Precedence(r) ==
    LET a == auth(r.hdr, r.c, r.q)
        v == jwtVerify(r.hdr.tok, now)
    IN
    /\ ~r.hdr.present => Rejects401(a, "Authentication required")
    /\ r.hdr.present /\ ~r.hdr.bearer => Rejects401(a, "Invalid token format")
    /\ r.hdr.present /\ r.hdr.bearer /\ r.hdr.tok = NoTok => Rejects401(a, "Invalid token")
    /\ r.hdr.present /\ r.hdr.bearer /\ v.ok /\ users[v.id].st # "live"
         => Rejects401(a, "Invalid token")

\* the middleware answered 503 'Service unavailable' and did not call next
Unavailable(a) ==
    /\ a.nexts = 0 /\ a.sends = 1
    /\ a.resp.status = 503 /\ a.resp.error = "Service unavailable"
    /\ a.resp.code = "DB_ERROR"

\* C5 as stated: in every reachable state the strict middleware rejects with 401,
\* never calling next, in the precedence: absent header 'Authentication
\* required', header without the 'Bearer ' prefix 'Invalid token format', empty
\* token 'Invalid token', valid token whose user is missing 'Invalid token'
C5_PrecedenceEverywhere == \A r \in AuthRequests : Precedence(r)

\* C5 amended: the precedence holds for every request for which dbConnect() and
\* the user lookup succeed; a request for which dbConnect() fails is answered
\* 503 'Service unavailable' whatever its header, and so is one whose user lookup
\* fails; next is called in none of these cases
C5_PrecedenceWhenDbAnswers ==
    \A r \in AuthRequests :
        /\ DbAnswers(r) => Precedence(r)
        /\ ~DbAnswers(r) => Unavailable(auth(r.hdr, r.c, r.q))

\* the last request went through the strict middleware alone
C5_Witness ==
    /\ last.op = "me"
    /\ last.auth.resp.status = 401
    /\ last.auth.resp.message = "User not found"
    /\ last.auth.nexts = 0

\* the lifetime of a token handed out by login, for a request carrying it
Lifetime(t, r) ==
    LET a == auth(Bearer(t), r.c, r.q) IN
    /\ now < t.exp /\ users[t.uid].st = "live"
         => a.nexts = 1 /\ a.sends = 0 /\ a.user.set /\ a.user.id = t.uid
    /\ now >= t.exp
         => /\ Rejects401(a, "Token expired")
            /\ a.resp.code = "JWT_EXPIRED"
            /\ a.resp # auth(Bearer(GarbageTok), r.c, "unused").resp

\* a token that fails verification for another reason than its age
InvalidClassified ==
    LET a == auth(Bearer(GarbageTok), "ok", "unused") IN
    Rejects401(a, "Invalid token") /\ a.resp.code = "JWT_INVALID"

\* C6 as stated: a token issued at login is accepted by the strict middleware at
\* every moment before its expiry while the user exists; after expiry it is
\* rejected with 'Token expired' / JWT_EXPIRED, distinct from the 'Invalid
\* token' / JWT_INVALID of a token that does not verify
C6_LifetimeEverywhere ==
    /\ InvalidClassified
    /\ \A t \in issued : \A r \in AuthRequests : r.hdr = Bearer(t) => Lifetime(t, r)

\* C6 amended: the same, for every request for which dbConnect() and the user
\* lookup succeed; a request for which one of them fails is answered 503
\* 'Service unavailable', before expiry and after it
C6_LifetimeWhenDbAnswers ==
    /\ InvalidClassified
    /\ \A t \in issued : \A r \in AuthRequests :
          r.hdr = Bearer(t) =>
              /\ DbAnswers(r) => Lifetime(t, r)
              /\ ~DbAnswers(r) => Unavailable(auth(r.hdr, r.c, r.q))

\* a token was handed out, time passed beyond its expiry, and a request carrying
\* it was answered 'Token expired'
C6_Witness ==
    /\ \E t \in issued : now >= t.exp /\ users[t.uid].st = "live"
    /\ last.op = "me"
    /\ last.auth.resp.code = "JWT_EXPIRED"

\* C7: the strict middleware ends in exactly one of two ways: next called once
\* with req.user the stored user named by the verified token, password field
\* excluded; or exactly one error response, next not called, req.user unset
C7_OneOutcome ==
    \A r \in AuthRequests :
        LET a == auth(r.hdr, r.c, r.q) IN
        \/ /\ a.nexts = 1 /\ a.sends = 0
           /\ a.user.set /\ ~a.user.hasPassword
           /\ r.hdr.tok.sig = "ok" /\ a.user.id = r.hdr.tok.uid
           /\ users[a.user.id].st = "live"
           /\ a.user.isAdmin = users[a.user.id].isAdmin
        \/ /\ a.nexts = 0 /\ a.sends = 1
           /\ ~a.user.set
           /\ a.resp.status \in {401, 503}

\* a request passed the strict middleware and reached its handler
C7_Witness ==
    /\ last.op = "me"
    /\ last.auth.nexts = 1 /\ last.auth.user.set
    /\ last.handler

\* C8: the optional middleware never sends a response and calls next exactly
\* once; req.user is set only if the header carries a Bearer token that
\* verifies and whose user exists
C8_OptionalNeverAnswers ==
    \A r \in OptRequests :
        LET a == authOptional(r.hdr, r.c, r.q)
            v == jwtVerify(r.hdr.tok, now)
        IN
        /\ a.nexts = 1 /\ a.sends = 0
        /\ a.user.set =>
              /\ r.hdr.present /\ r.hdr.bearer /\ v.ok
              /\ users[v.id].st = "live" /\ a.user.id = v.id
              /\ DbAnswers(r)
        /\ r.hdr.present /\ r.hdr.bearer /\ v.ok /\ users[v.id].st = "live" /\ DbAnswers(r)
              => a.user.set

\* a request with a token that no longer verifies went through the optional
\* middleware and reached the handler without an identity
C8_Witness ==
    /\ last.op = "optional"
    /\ last.auth.nexts = 1 /\ ~last.auth.user.set
    /\ last.handler
    /\ \E t \in issued : now >= t.exp

\* ---- properties of the admin-gated routes --------------------------------------
\* the token of request r resolves to a stored user: it verifies, the lookup
\* returns, and the user exists
Resolves(r) ==
    /\ DbAnswers(r)
    /\ r.hdr.present /\ r.hdr.bearer
    /\ jwtVerify(r.hdr.tok, now).ok
    /\ users[r.hdr.tok.uid].st = "live"

\* the chain answered with this status and did not reach the handler
Stops(g, status) == g.nexts = 0 /\ g.sends = 1 /\ g.resp.status = status

\* a step that completes a request without entering its handler (the chain
\* answered) changes no stored document and leaves the deletion in flight alone
StoppedRequestsWriteNothing ==
    (last' # last /\ ~last'.handler) => UNCHANGED <<users, passengers, trips, del, issued>>

\* a request without header is answered 401 by the chain
NoHeaderIs401 ==
    \A r \in AuthRequests : ~r.hdr.present => Stops(gate(r.hdr, r.c, r.q), 401)

\* a request whose token resolves to a non-admin user is answered 403
NonAdminIs403 ==
    \A r \in AuthRequests :
        Resolves(r) /\ ~users[r.hdr.tok.uid].isAdmin => Stops(gate(r.hdr, r.c, r.q), 403)

\* C1 as stated: on every admin-gated route a request whose token resolves to a
\* non-admin user is rejected with 403 and a request without Authorization
\* header with 401, and in both cases the handler's database operation is
\* never performed
C1_GateAsStated ==
    /\ [](NoHeaderIs401 /\ NonAdminIs403)
    /\ [][StoppedRequestsWriteNothing]_vars

\* C1 amended: a non-admin token is rejected with 403; a request without header
\* is rejected with 401 when dbConnect() succeeds and with 503 'Service
\* unavailable' when it fails; in every one of these cases the handler's
\* database operation is never performed
C1_GateWhenDbAnswers ==
    /\ [](/\ NonAdminIs403
          /\ \A r \in AuthRequests :
                ~r.hdr.present =>
                    /\ r.c = "ok" => Stops(gate(r.hdr, r.c, r.q), 401)
                    /\ r.c # "ok" => Unavailable(gate(r.hdr, r.c, r.q)))
    /\ [][StoppedRequestsWriteNothing]_vars

\* a non-admin was turned away from an admin-gated route with 403
C1_Witness ==
    /\ last.op \in {"userList", "userGet", "userUpdate", "userDelete", "passengerCreate",
                    "passengerUpdate", "passengerUpdateBody", "passengerDelete"}
    /\ last.auth.nexts = 1 /\ ~last.auth.user.isAdmin
    /\ last.resp.status = 403
    /\ ~last.handler

\* the identities the strict middleware can attach in the current state, and none
Identities == {NoUser} \cup {selectNoPassword(i) : i \in {j \in UserIds : users[j].st = "live"}}

\* the outcome of admin as a function of the attached identity alone
AdminByIdentity ==
    \A u \in Identities :
        LET a == admin(u) IN
        /\ ~u.set => Stops(a, 401) /\ a.resp.error = "Authentication required"
        /\ u.set /\ ~u.isAdmin => Stops(a, 403) /\ a.resp.error = "Admin access required"
        /\ u.set /\ u.isAdmin => a.nexts = 1 /\ a.sends = 0 /\ a.user = u

\* every request is decided by the identity auth attached, and by it alone
GateIsAdminOfIdentity ==
    \A r \in AuthRequests :
        LET a == auth(r.hdr, r.c, r.q) IN
        a.nexts = 1 => gate(r.hdr, r.c, r.q) = admin(a.user)

\* a step in which admin answered: the cache is as auth left it, the stored
\* documents are untouched
AdminWritesNothing ==
    (last' # last /\ last'.auth.nexts = 1 /\ ~last'.handler)
        => /\ cached' = connectDB("ok")
           /\ UNCHANGED <<users, passengers, trips, del, issued>>

\* C9: the outcome of the admin middleware (401 / 403 / next) is determined by
\* the identity attached to the request alone; it reads and writes no stored
\* document, and leaves the connection cache and every record unchanged
C9_AdminPure ==
    /\ [](AdminByIdentity /\ GateIsAdminOfIdentity)
    /\ [][AdminWritesNothing]_vars

\* admin let the administrator through to a handler after turning a non-admin away
C9_Witness ==
    /\ last.auth.nexts = 1 /\ last.auth.user.isAdmin
    /\ last.handler
    /\ last.op = "userList"

\* ---- properties of the passenger deletion ----------------------------------------
\* a step of the deletion in flight; the step that ends it (the response is sent)
DeletionStep == del' # del
Completes == del.pc # "idle" /\ del'.pc = "idle"

\* steps before the end of the handler are invisible to other requests, and a
\* deletion that fails at any step leaves both collections as they were
NothingBeforeCommit ==
    /\ (DeletionStep /\ ~Completes) => UNCHANGED <<passengers, trips>>
    /\ (Completes /\ last'.resp.status # 200) => UNCHANGED <<passengers, trips>>

\* the passenger of the deletion is gone, every other passenger is as before
PassengerGone ==
    /\ passengers'[del.id].st = "gone"
    /\ \A p \in PassengerIds : p # del.id => passengers'[p] = passengers[p]

\* C2 as stated: the deletion is all-or-nothing: other requests see either the
\* passenger and all trips with its id as before, or the passenger and every
\* such trip gone; after a successful deletion zero trips reference the id; a
\* failure at any step leaves both collections unchanged
C2_AllOrNothingNoTripLeft ==
    [][/\ NothingBeforeCommit
       /\ (Completes /\ last'.resp.status = 200) =>
             /\ PassengerGone
             /\ tripsOf(trips', del.id) = {}
             /\ \A t \in TripIds : t \notin tripsOf(trips, del.id) => trips'[t] = trips[t]
      ]_vars

\* C2 amended: the deletion is all-or-nothing for the passenger and the trips
\* that referenced its id when the transaction took its snapshot: they vanish
\* together at the commit, unchanged until then, and nothing else changes; a
\* trip that another request creates for the id, or points at it, after the
\* snapshot is not deleted and still references the id after the success; a
\* failure at any step leaves both collections unchanged
C2_AllOrNothingOfSnapshot ==
    [][/\ NothingBeforeCommit
       /\ (Completes /\ last'.resp.status = 200) =>
             /\ PassengerGone
             /\ \A t \in TripIds :
                   IF t \in tripsOf(del.tsnap, del.id)
                     THEN trips[t] = del.tsnap[t] /\ trips'[t].st = "gone"
                     ELSE trips'[t] = trips[t]
      ]_vars

\* a deletion succeeded and took a trip with it, while a trip created for the
\* same id during the transaction is still there
C2_Witness ==
    /\ last.op = "passengerDelete" /\ last.resp.status = 200
    /\ last.target \in PassengerIds
    /\ passengers[last.target].st = "gone"
    /\ \E t \in TripIds : trips[t].st = "gone"
    /\ tripsOf(trips, last.target) # {}

\* the ids a client can put in the path of DELETE /passengers/:id that match no
\* passenger
Unmatched == {id \in KnownIds(passengers, PassengerIds) : ~IsLive(passengers, PassengerIds, id)}

\* the step in which the lookup of an unmatched id ends the request
UnmatchedLookup ==
    del.pc = "find" /\ DeletionStep /\ ~IsLive(passengers, PassengerIds, del.id)

\* the response of that step is the one the handler computes for the id, and
\* no passenger and no trip changes
UnmatchedChangesNothing ==
    UnmatchedLookup =>
        /\ Completes
        /\ last'.target = del.id
        /\ last'.resp \in {delResponse(findOutcome(del.id, qh)) : qh \in QueryOutcomes}
        /\ UNCHANGED <<passengers, trips>>

\* C3 as stated: DELETE /passengers/:id for an id that matches no passenger
\* responds 404 'Not found' and leaves every passenger and every trip
\* unchanged, trips whose passengerId equals the id included
C3_UnmatchedIs404 ==
    /\ [](\A id \in Unmatched : \A qh \in QueryOutcomes :
             LET r == delResponse(findOutcome(id, qh)) IN
             r.status = 404 /\ r.error = "Not found")
    /\ [][UnmatchedChangesNothing]_vars

\* C3 amended: for a well-formed id that matches no passenger the response is
\* 404 'Not found' when the lookup returns; an id that is not an ObjectId is
\* answered 400 'Invalid ID format', a lookup that fails 503; in each of these
\* cases every passenger and every trip is unchanged
C3_UnmatchedWellFormedIs404 ==
    /\ [](\A id \in Unmatched : \A qh \in QueryOutcomes :
             LET r == delResponse(findOutcome(id, qh)) IN
             /\ id # BadId /\ qh = "ok" => r.status = 404 /\ r.error = "Not found"
             /\ id = BadId => r.status = 400 /\ r.error = "Invalid ID format"
             /\ id # BadId /\ qh # "ok" => r.status = 503)
    /\ [][UnmatchedChangesNothing]_vars

\* a deletion of an id that no passenger has was answered 404 while a trip
\* carries that id
C3_Witness ==
    /\ last.op = "passengerDelete" /\ last.handler
    /\ last.resp.status = 404 /\ last.target = GhostId
    /\ \E t \in TripIds : trips[t].st = "live" /\ trips[t].passengerId = GhostId

\* C4: in the handler of the deletion every session that was started is ended
\* exactly once on every exit path (commit, 'Passenger not found', a thrown
\* database error), and no path returns with a session open
C4_SessionEndedOnce ==
    /\ del.pc = "idle" => del.session = "null"
    /\ del.pc # "idle" => del.session = "open"
    /\ last.op = "passengerDelete" /\ last.handler =>
          /\ last.sess.started \in {0, 1}
          /\ last.sess.ended = last.sess.started
          /\ last.resp.status \in {200, 404} => last.sess.started = 1

\* the handler left through the catch block after a database error inside the
\* transaction
C4_Witness ==
    /\ last.op = "passengerDelete" /\ last.handler
    /\ last.resp.status = 503
    /\ last.sess.started = 1 /\ last.sess.ended = 1

\* ---- properties of the passenger counters -------------------------------------------
\* the existing trips whose count is absent (stored as null) or equals 1
AtFloor ==
    {id \in TripIds : trips[id].st = "live" /\ trips[id].numberOfPassengers \in {Null, Absent, 1}}

\* C10: decrementing the passenger count of an existing trip whose count is
\* absent or equals 1 fails with a 400 validation error and leaves the stored
\* count unchanged (stated for the requests the database serves: dbConnect()
\* succeeds and the store answers the update)
C10_DecrementAtFloorIs400 ==
    \A id \in AtFloor :
        LET d == decrement(id, "ok", "ok") IN
        /\ d.resp.status = 400
        /\ d.resp.error = "Validation failed"
        /\ d.trips = trips

\* a decrement was answered 503 while the connection is up and a trip is at
\* the floor
C10_Witness ==
    /\ last.op = "decrement"
    /\ last.resp.status = 503
    /\ cached.conn
    /\ AtFloor # {}

LiveTrips == {id \in TripIds : trips[id].st = "live"}
Numeric(n) == n \notin {Null, Absent, NaN}
NumericTrips == {id \in LiveTrips : Numeric(trips[id].numberOfPassengers)}

\* C11: incrementing the passenger count of an existing trip stores 2 when
\* the count is absent and n + 1 when the count is the number n (stated for
\* the requests the database serves)
C11_IncrementAddsOne ==
    \A id \in LiveTrips :
        LET n == trips[id].numberOfPassengers
            i == increment(id, "ok", "ok")
        IN
        /\ i.resp.status = 200
        /\ i.trips[id].numberOfPassengers = IF Numeric(n) THEN n + 1 ELSE 2

\* an increment was answered 503 while the connection is up, with a trip
\* whose count is a number and a trip whose count is empty
C11_Witness ==
    /\ last.op = "increment"
    /\ last.resp.status = 503
    /\ cached.conn
    /\ NumericTrips # {}
    /\ LiveTrips \ NumericTrips # {}

PositiveInteger(n) == Numeric(n) /\ ~IsFraction(n) /\ n >= 1

\* C12: after any sequence of trip create, full update, count set, increment
\* and decrement requests, every stored trip's passenger count is empty or an
\* integer greater than or equal to 1
C12_StoredCountValid ==
    \A id \in LiveTrips :
        \/ trips[id].numberOfPassengers \in {Null, Absent}
        \/ PositiveInteger(trips[id].numberOfPassengers)

\* two trips are stored, one with an empty count and one with count 2, after
\* a decrement request
C12_Witness ==
    /\ last.op = "decrement"
    /\ \E id \in LiveTrips : trips[id].numberOfPassengers = 2
    /\ \E id \in LiveTrips : trips[id].numberOfPassengers = Null

\* what one counter request does to a trip whose count is the number n: the
\* count moves by d when the request is answered 200 and stays otherwise
Accounted(id, r, d) ==
    /\ r.resp.status = 200 =>
          r.trips = [trips EXCEPT ![id].numberOfPassengers = @ + d]
    /\ r.resp.status # 200 => r.trips = trips
    /\ r.trips[id].numberOfPassengers >= 1

EveryCounterRequestAccounted ==
    \A id \in NumericTrips : \A c \in ConnOutcomes, qh \in QueryOutcomes :
        /\ Accounted(id, increment(id, c, qh), 1)
        /\ Accounted(id, decrement(id, c, qh), -1)

\* a step that ends a counter request changes no trip, or moves the count of
\* one trip by one in the request's direction and answers 200
CounterStep ==
    last'.op \in {"increment", "decrement"} =>
        \A id \in TripIds :
            \/ trips'[id] = trips[id]
            \/ /\ id \in NumericTrips
               /\ last'.resp.status = 200
               /\ trips'[id] = [trips[id] EXCEPT !.numberOfPassengers =
                                  @ + (IF last'.op = "increment" THEN 1 ELSE -1)]
               /\ trips'[id].numberOfPassengers >= 1

SetInputs == CountInputs \cup {Null, -2}

\* C14: the set operation answers 400 and leaves the stored count unchanged
\* for every input that is not a positive integer (zero, negatives,
\* non-integers such as 2.5, non-numeric values); for a positive integer k
\* on an existing trip it stores exactly k
C14_SetAcceptsPositiveIntegersOnly ==
    \A id \in LiveTrips : \A v \in SetInputs :
        LET r == setCount(id, v, "ok", "ok") IN
        IF PositiveInteger(v)
          THEN r.resp.status = 200 /\ r.trips[id].numberOfPassengers = v
          ELSE r.resp.status = 400 /\ r.trips = trips

\* a set request was answered 200 and a trip holds count 2
C14_Witness ==
    /\ last.op = "set"
    /\ last.resp.status = 200
    /\ \E id \in LiveTrips : trips[id].numberOfPassengers = 2

\* ---- properties of the connection cache -----------------------------------------------
Empty == ~cached.conn /\ ~cached.promise
Callers == {k \in CallIds : calls[k] = Waiting}

\* a call that finds the cache empty starts an attempt of its own and awaits it
EmptyCacheStartsAttempt ==
    \A k \in Callers :
        Empty =>
          LET n == connect(k) IN
          /\ n.heard.what = "started"
          /\ n.promise \notin InFlight
          /\ n.attempts[n.promise] = "pending"
          /\ n.calls[k] = Awaiting(n.promise)

\* what a call does, by what it finds
CallsShareTheAttempt ==
    \A k \in Callers :
        LET n == connect(k) IN
        /\ n.heard.what = "started" => ~cached.conn /\ InFlight = {}
        /\ cached.conn => n.calls[k] = Returned /\ n.attempts = attempts
        /\ (~cached.conn /\ InFlight # {}) =>
              n.attempts = attempts /\ n.calls[k].pc = "awaiting" /\ n.calls[k].on \in InFlight

AtMostOneInFlight == Cardinality(InFlight) <= 1

\* C15: connect() starts a new connection attempt only when no handle is
\* cached and no attempt is in flight: calls after a successful connect return
\* the cached handle without a new attempt, calls made during an attempt all
\* await that same attempt, and at most one connection attempt is in flight at
\* any time under any interleaving of calls, failures and connection events
C15_SingleFlight == CallsShareTheAttempt /\ AtMostOneInFlight

\* a call has just started an attempt while another attempt is in flight
C15_Witness ==
    /\ heard.kind = "call"
    /\ heard.what = "started"
    /\ Cardinality(InFlight) = 2

\* the step in which attempt a fails
Fails(a) == heard'.what = "rejected" /\ a \in InFlight /\ a \notin InFlight'

FailureStep ==
    \A a \in AttemptIds :
        Fails(a) =>
          /\ \A k \in awaiters(a) : calls'[k] = Threw
          /\ ~cached'.conn
          /\ ~cached'.promise

\* C16: when a connection attempt fails, every caller awaiting that attempt
\* receives the error, the cache afterwards holds neither a handle nor an
\* in-progress attempt, and the next connect() call starts a fresh attempt
C16_FailureClearsCache == []EmptyCacheStartsAttempt /\ [][FailureStep]_vars

\* an attempt has just failed under two calls that awaited it, and the cache
\* holds a handle
C16_Witness ==
    /\ heard.kind = "settle"
    /\ heard.what = "rejected"
    /\ heard.n = 2
    /\ cached.conn

Invalidated == ~cached'.conn /\ ~cached'.promise /\ promise' = NoPromise

EveryEventInvalidates == heard'.kind = "event" => Invalidated

ErrorAndDropInvalidate ==
    heard'.kind = "event" =>
        IF heard'.what \in {"error", "disconnected"} THEN Invalidated
        ELSE cached' = cached /\ promise' = promise

\* the next call after a step that emptied the cache
NextCallReconnects ==
    (heard.kind = "event" /\ Empty) => EmptyCacheStartsAttempt

\* C17 as stated: each connection-level event (established, error, dropped)
\* invalidates the cache: after the event the cache holds no handle and no
\* in-progress attempt, so the next connect() call starts a new attempt
C17_EveryEventInvalidates == []NextCallReconnects /\ [][EveryEventInvalidates]_vars

\* C17: the error and the dropped event invalidate the cache (no handle, no
\* in-progress attempt afterwards), so that the next connect() call starts a
\* new attempt instead of returning the previous handle; the established
\* event leaves the cache as it is
C17_ErrorAndDropInvalidate == []NextCallReconnects /\ [][ErrorAndDropInvalidate]_vars

\* the connection was dropped while the cache held a handle
C17_Witness ==
    /\ heard.kind = "event"
    /\ heard.what = "disconnected"
    /\ heard.held
    /\ Empty

\* ---- properties of the sites --------------------------------------------------------------
LiveSites == {n \in SiteNames : sites[n].st = "live"}
\* the names, dates and body values a request can carry
NamedSites == SiteNames \cup {"Rig "}
BodyValues == {Absent, Null, NaN, -2, 0, 1, 2, Half + 1}
ValidCurrent == {v \in BodyValues : isInteger(v) /\ v >= 0}
ValidMaximum == {v \in BodyValues : isInteger(v) /\ v > 0}
Dates == now..MaxDates

\* whatever becomes of the batch and of the listing: the locations exist once
\* the request is answered 201, a site that existed is left as it was, and a
\* second run at any later date changes no record
InitializePreserves ==
    \A c \in ConnResults, done \in 0..Len(locations), qh \in QueryErrors,
       qf \in QueryOutcomes :
        LET r == initialize(c, done, qh, qf) IN
        /\ r.resp.status = 201 => \A n \in Locations : r.sites[n].st = "live"
        /\ \A n \in LiveSites : r.sites[n] = sites[n]
        /\ r.resp.status = 201 =>
              \A again \in 0..Len(locations), date \in Dates :
                  bulkWrite(r.sites, again, date) = r.sites

InitializeStep ==
    last'.op = "initialize" =>
        /\ \A n \in LiveSites : sites'[n] = sites[n]
        /\ last'.resp.status = 201 => \A n \in Locations : sites'[n].st = "live"

\* C18: site initialization is idempotent and non-destructive: for any prior
\* state, after POST /sites/initialize each of the six fixed site names
\* exists, every site that existed before keeps its currentPOB, maximumPOB
\* and pobUpdatedDate, and running the operation a second time changes no
\* record
C18_InitializeIdempotent == []InitializePreserves /\ [][InitializeStep]_vars

\* the sites were initialized at date 1 over a store that held Ogle with a POB
\* of its own and Rig since date 0
C18_Witness ==
    /\ last.op = "initialize"
    /\ last.resp.status = 201
    /\ sites["Rig"].st = "live"
    /\ sites["Ogle"].currentPOB = 1
    /\ sites["Ogle"].pobUpdatedDate = 0
    /\ sites["NTM"].pobUpdatedDate = 1

\* C19: after any sequence of site initialize, POB upsert and site update
\* requests, every stored site record has a currentPOB that is an integer
\* >= 0 and a maximumPOB that is an integer > 0, both fields present
C19_SitesWellFormed ==
    \A n \in LiveSites :
        /\ isInteger(sites[n].currentPOB) /\ sites[n].currentPOB >= 0
        /\ isInteger(sites[n].maximumPOB) /\ sites[n].maximumPOB > 0

\* a POB upsert was answered 200 and a stored site has no maximumPOB
C19_Witness ==
    /\ last.op = "sitePob"
    /\ last.resp.status = 200
    /\ \E n \in LiveSites : sites[n].maximumPOB = Absent

\* PUT /sites/:siteName/pob served by the store, with currentPOB cur and
\* maximumPOB drawn from maxima: the site is there afterwards with that
\* currentPOB, created when it was not there and updated when it was, and
\* no other site is touched
PobUpserts(maxima) ==
    \A s \in NamedSites, cur \in ValidCurrent, max \in maxima :
        LET n == Trim(s)
            r == sitePob(s, cur, max, "ok", "ok")
        IN
        /\ r.resp.status = 200
        /\ r.sites[n].st = "live"
        /\ r.sites[n].currentPOB = cur
        /\ r.sites[n].maximumPOB = IF max = Absent THEN sites[n].maximumPOB ELSE max
        /\ \A m \in SiteNames \ {n} : r.sites[m] = sites[m]

\* an update of either route that is carried out writes pobUpdatedDate if it
\* writes currentPOB and leaves pobUpdatedDate alone if it does not
Stamped(s, cur, r) ==
    r.resp.status = 200 =>
        r.sites[Trim(s)].pobUpdatedDate =
            IF cur # Absent THEN now ELSE sites[Trim(s)].pobUpdatedDate

DateFollowsCurrent ==
    \A s \in NamedSites \cup {" "}, cur \in BodyValues, max \in BodyValues,
       c \in ConnResults, qh \in QueryOutcomes :
        /\ Stamped(s, cur, sitePob(s, cur, max, c, qh))
        /\ Stamped(s, cur, siteUpdate(s, max, cur, c, qh))

\* C20 as stated: PUT /sites/:siteName/pob with a valid currentPOB creates the
\* site when no record with that name exists and updates it otherwise; in
\* both update routes every update that writes currentPOB writes
\* pobUpdatedDate in the same update, and an update that writes only
\* maximumPOB leaves pobUpdatedDate unchanged
C20_UpsertOnValidCurrent == PobUpserts(BodyValues) /\ DateFollowsCurrent

\* C20: PUT /sites/:siteName/pob with a valid currentPOB and a maximumPOB
\* that is missing or a positive integer, served by the store, creates the
\* site when no record with that name exists and updates it otherwise; in
\* both update routes every update that writes currentPOB writes
\* pobUpdatedDate in the same update, and an update that writes only
\* maximumPOB leaves pobUpdatedDate unchanged
C20_UpsertOnValidBody == PobUpserts({Absent} \cup ValidMaximum) /\ DateFollowsCurrent

\* Rig, which only a POB upsert can have created, still carries date 0 after a
\* site update at date 1 and a maximumPOB that only an update can have written
C20_Witness ==
    /\ last.op = "siteUpdate"
    /\ last.resp.status = 200
    /\ now = 1
    /\ sites["Rig"].st = "live"
    /\ sites["Rig"].pobUpdatedDate = 0
    /\ sites["Rig"].maximumPOB = 1

\* ---- properties of the accounts ---------------------------------------------------------
LiveUsers == {i \in UserIds : users[i].st = "live"}
\* every password a request of the model submits
Plaintexts == PasswordInputs \cup {"password2", " password1", Trim(" password1")}
HasPassword(body) ==
    \/ "password" \in DOMAIN body
    \/ "user" \in DOMAIN body /\ "password" \in DOMAIN body.user

\* C21: after any sequence of register, login, profile update and admin user
\* update requests no stored user's password equals a plaintext password that
\* was submitted, and no response body of register, login, /users/me and the
\* admin user routes contains a password field
C21_PasswordNeverShown ==
    \A i \in LiveUsers :
        /\ users[i].password \notin Plaintexts
        /\ \A op \in UserRoutes : ~HasPassword(userBody(op, users[i]))

\* a user changed their password through the profile route, and the other
\* user registered with the password that was replaced
C21_Witness ==
    /\ last.op = "profileUpdate"
    /\ last.resp.status = 200
    /\ \E i \in LiveUsers : users[i].password = Hash("password2")
    /\ \E i \in LiveUsers : users[i].password = Hash("password1")

\* ---- properties of concurrent account requests --------------------------------------
UniqueUserNames ==
    \A i, j \in LiveUsers : i # j => users[i].userName # users[j].userName
\* the write w would leave two users with one name
Duplicates(coll, w) == w.ch.userName # NoField /\ taken(coll, w.id, w.ch.userName)
Rejects(r) == r.resp.status >= 400 /\ r.users = users

\* C22: under any interleaving of register and administrator user-update
\* requests no two stored users share a username, and a request that would
\* create a duplicate (at its read or at its save) is rejected without
\* changing any stored user
C22_UserNamesUnique ==
    /\ UniqueUserNames
    /\ \A k \in WriteIds :
          (writes[k] # NoWrite /\ Duplicates(users, writes[k]))
             => Rejects(save(users, writes[k], "Failed to save user"))
    /\ \A u \in RaceNames, a \in BOOLEAN :
          findIn(users, Trim(u)) # 0
             => Rejects(register(users, u, "password1", TRUE, a, "ok", "ok"))
    /\ \A id \in LiveUsers, u \in RaceNames, a \in OptFlag :
          (u # users[id].userName /\ findIn(users, Trim(u)) # 0)
             => Rejects(userUpdate(users, id, u, a, NoField, "ok"))

\* two requests read that the name bob was free; the first save stored it and
\* the second was refused by the unique index
C22_Witness ==
    /\ last.op = "save"
    /\ last.resp.status = 503
    /\ \E i \in LiveUsers : users[i].userName = "bob"
    /\ \E i \in LiveUsers : users[i].userName = "amy"

\* ---- properties of trip dates ----------------------------------------------------------
\* every value formatTripDate can be called with
DateInputs ==
    DateSends \cup {NativeDate(d, h, o) : d \in Days, h \in Hours, o \in Offsets}

\* C23: formatTripDate maps the string "YYYY-MM-DD", every full timestamp
\* string with that date part (any time of day, any UTC offset) and a native
\* date made for that day to the same "YYYY-MM-DD", and applying it to its own
\* result changes nothing
C23_FormatTripDate ==
    /\ \A d \in Days :
          /\ formatTripDate(DateString(d)) = DateString(d)
          /\ \A h \in Hours, o \in Offsets :
                /\ formatTripDate(Timestamp(d, h, o)) = DateString(d)
                /\ formatTripDate(NativeDate(d, h, o)) = DateString(d)
    /\ \A x \in DateInputs :
          formatTripDate(x) # DateError
             => formatTripDate(formatTripDate(x)) = formatTripDate(x)
    /\ \A t \in LiveTrips : formatTripDate(trips[t].tripDate) = trips[t].tripDate

\* a trip was stored under a day that no request named: its timestamp was
\* moved to UTC before the day was taken
C23_Witness ==
    /\ last.op \in {"tripCreate", "tripUpdate"}
    /\ last.resp.status \in {200, 201}
    /\ \E t \in LiveTrips : trips[t].tripDate.day \notin Days \cup {NoSuchDay}

\* the date inputs that name no day
Unparsable == {NotADate, DateString(NoSuchDay)}
Refused(r) == r.resp.status = 400 /\ r.trips = trips

\* C24: every stored tripDate is a canonical YYYY-MM-DD string; a create, an
\* update or a date query with an unparsable date is answered 400 (never 500)
\* and stores or changes nothing; a trip created with the date input x is
\* returned by the date query for x
C24_TripDatesCanonical ==
    /\ \A t \in LiveTrips : trips[t].tripDate.kind = "date"
    /\ \A x \in Unparsable, c \in ConnOutcomes, qh \in QueryOutcomes :
          /\ Refused(tripCreate(trips, 1, x, Absent, c, qh))
          /\ \A id \in TripPaths : Refused(tripUpdate(trips, id, 1, x, Absent, c, qh))
          /\ tripsByDate(trips, x, c, qh).resp.status = 400
    /\ \A x \in DateSends :
          LET r == tripCreate(trips, 1, x, Absent, "ok", "ok") IN
          (r.resp.status = 201 /\ FreshId(trips, TripIds) # 0)
             => FreshId(trips, TripIds) \in tripsByDate(r.trips, x, "ok", "ok").found

\* a trip is stored under a date that names no day
C24_Witness ==
    /\ last.op \in {"tripCreate", "tripUpdate"}
    /\ last.resp.status \in {200, 201}
    /\ \E t \in LiveTrips : trips[t].tripDate = DateString(NoSuchDay)

\* ---- properties of requests that name no record -------------------------------------
\* the well-formed ids that name no document of a collection
MissingIds(coll, ids) == {i \in KnownIds(coll, ids) : i # BadId /\ ~IsLive(coll, ids, i)}
MissingSites == {n \in SiteNames : sites[n].st # "live"}
Missed(r, coll, after) == r.status = 404 /\ after = coll

\* C25: every handler that addresses one record by id or name and does not
\* upsert (trip get, update, confirm, delete, increment, decrement, set;
\* passenger get, update, delete; user get, update, delete; site get, site
\* update) answers 404 when no such record exists and changes nothing, the
\* request being valid otherwise and the store answering
C25_MissingIs404 ==
    /\ \A id \in MissingIds(trips, TripIds) :
          /\ tripGet(trips, id, "ok", "ok").status = 404
          /\ LET r == tripUpdate(trips, id, 1, DateString(1), Absent, "ok", "ok")
             IN Missed(r.resp, trips, r.trips)
          /\ LET r == tripConfirm(trips, id, "true", "ok", "ok")
             IN Missed(r.resp, trips, r.trips)
          /\ lookupT(id, "ok", "Failed to delete trip").status = 404
          /\ Missed(increment(id, "ok", "ok").resp, trips, increment(id, "ok", "ok").trips)
          /\ Missed(decrement(id, "ok", "ok").resp, trips, decrement(id, "ok", "ok").trips)
          /\ Missed(setCount(id, 2, "ok", "ok").resp, trips, setCount(id, 2, "ok", "ok").trips)
    /\ \A id \in MissingIds(passengers, PassengerIds) :
          /\ lookupP(id, "ok", "Failed to fetch passenger").status = 404
          /\ lookupP(id, "ok", "Failed to update passenger").status = 404
          /\ delResponse(findOutcome(id, "ok")).status = 404
    /\ \A id \in MissingIds(users, UserIds) :
          /\ lookup(users, UserIds, id, "ok", "Failed to fetch user").status = 404
          /\ LET r == userUpdate(users, id, "bob", "false", "password1", "ok")
             IN Missed(r.resp, users, r.users)
          /\ lookup(users, UserIds, id, "ok", "Failed to delete user").status = 404
    /\ \A n \in MissingSites :
          /\ siteGet(n, "ok", "ok").status = 404
          /\ LET r == siteUpdate(n, 2, 1, "ok", "ok") IN Missed(r.resp, sites, r.sites)

\* no trip is stored, and the counter request that came last was not answered
\* 404
C25_Witness ==
    /\ last.op \in {"increment", "decrement"}
    /\ last.resp.status # 404
    /\ LiveTrips = {}
    /\ cached.conn

\* ---- properties of error responses ------------------------------------------------------
\* the names of the errors a handler can catch
ErrorNames ==
    {"CastError", "ValidationError", "Error"} \cup ConnErrors \cup QueryErrors
HasBoth(r) == r.error # NoField /\ r.message # NoField

\* C26: every error response (400, 401, 403, 404, 500, 503) of a middleware, a
\* handler, an error helper or the application's 404 and 500 handlers is a
\* JSON object with both an error and a message field
C26_ErrorsCarryBothFields ==
    /\ last.resp.status >= 400 => HasBoth(last.resp)
    /\ \A h \in ClientHeaders \cup {Bearer(GarbageTok)}, c \in ConnResults,
          q \in QueryOutcomes :
          gate(h, c, q).sends = 1 => HasBoth(gate(h, c, q).resp)
    /\ \A name \in ErrorNames :
          /\ HasBoth(handleError(name, "Server Error"))
          /\ HasBoth(handleErrorP(name, "Server Error"))
          /\ HasBoth(handleErrorS(name, "Server Error"))
    /\ HasBoth(endpointNotFound)
    /\ HasBoth(internalServerError)

\* a passenger route answered a malformed id with 400 and no message
C26_Witness ==
    /\ last.handler
    /\ last.resp.status = 400
    /\ last.resp.error = "Invalid ID format"
    /\ last.resp.message = NoField

\* ---- properties of the admin flag -------------------------------------------------------
\* the tokens issued to users who still exist
TokensOfUsers == {t \in issued : users[t.uid].st = "live"}
\* the store answers the request and the token has not expired
Answering(t, c, q) == c = "ok" /\ q = "ok" /\ jwtVerify(t, now).ok

\* C27 as stated: while a user's stored isAdmin is false every request to an
\* admin-gated route with a token issued to that user is answered 403, and
\* while it is true the user's tokens pass the gate, whatever isAdmin value
\* the token carries
C27_StoredFlagDecides ==
    \A t \in TokensOfUsers, c \in ConnOutcomes :
        \A q \in AuthQ(Bearer(t), c) :
            LET g == gate(Bearer(t), c, q) IN
            IF users[t.uid].isAdmin THEN g.nexts = 1
            ELSE g.nexts = 0 /\ g.resp.status = 403

\* C27 amended: a token of a user whose stored isAdmin is false never passes
\* the gate, and is answered 403 when the store answers and the token has not
\* expired; a token of a user whose stored isAdmin is true passes the gate
\* when the store answers and the token has not expired; in both cases an
\* expired token is answered 401 and a failing store 503, and the isAdmin
\* value in the token plays no part
C27_StoredFlagDecidesWhenAnswering ==
    \A t \in TokensOfUsers, c \in ConnOutcomes :
        \A q \in AuthQ(Bearer(t), c) :
            LET g == gate(Bearer(t), c, q) IN
            /\ ~users[t.uid].isAdmin => g.nexts = 0
            /\ Answering(t, c, q) =>
                  IF users[t.uid].isAdmin THEN g.nexts = 1
                  ELSE g.nexts = 0 /\ g.resp.status = 403
            /\ ~Answering(t, c, q) =>
                  /\ g.nexts = 0
                  /\ g.resp.status = IF c = "ok" /\ ~jwtVerify(t, now).ok THEN 401 ELSE 503

\* both flags were changed after the tokens were issued: the token that says
\* administrator belongs to an ordinary user, whose request was answered 403,
\* and the token that says ordinary user belongs to an administrator
C27_Witness ==
    /\ \E t \in TokensOfUsers : t.isAdmin /\ ~users[t.uid].isAdmin
                                 /\ last.auth.user.id = t.uid
    /\ \E t \in TokensOfUsers : ~t.isAdmin /\ users[t.uid].isAdmin
    /\ last.op = "userGet"
    /\ last.resp.status = 403

\* user i is an administrator after the step and was not one before it
BecomesAdmin(i) ==
    /\ users'[i].st = "live" /\ users'[i].isAdmin
    /\ ~(users[i].st = "live" /\ users[i].isAdmin)
\* the request of the step went through auth and admin as an administrator
PassedTheGates == last'.handler /\ last'.auth.nexts = 1 /\ last'.auth.user.isAdmin

\* C28: a user record with the admin flag set comes into existence, or has
\* its flag changed from false to true, only through a request that passed
\* the authentication and admin gates
C28_AdminOnlyThroughGates ==
    [][\A i \in UserIds : BecomesAdmin(i) => PassedTheGates]_vars

\* an administrator exists although no token was ever issued: the request
\* that made them was a registration, which no middleware precedes
C28_Witness ==
    /\ last.op = "register"
    /\ last.resp.status = 201
    /\ last.auth = NotRun
    /\ issued = {}
    /\ \E i \in LiveUsers : users[i].isAdmin

\* ---- properties of trips of a deleted passenger ---------------------------------------
\* the deletion that completed last succeeded and no request is in flight
DeletionSucceeded ==
    /\ del.pc = "idle"
    /\ last.op = "passengerDelete" /\ last.resp.status = 200

\* C29 as stated: under every interleaving of a passenger deletion with trip
\* create and trip update requests that name the same passenger id, once the
\* requests have completed and the deletion succeeded no stored trip
\* references the id of the deleted passenger
C29_NoTripOfDeletedPassenger ==
    DeletionSucceeded => tripsOf(trips, last.target) = {}

\* the trips that reference the id after the step are not trips the
\* transaction read, and the step left them as they were
LeftOnlyLaterTrips ==
    \A t \in tripsOf(trips', del.id) :
        t \notin tripsOf(del.tsnap, del.id) /\ trips'[t] = trips[t]

\* C29 amended: when the deletion succeeds, no trip that referenced the id
\* when the transaction read the trips is stored any more; a trip that
\* references the id afterwards was created for it, or pointed at it, by a
\* request that completed between that read and the commit
C29_NoTripOfSnapshotLeft ==
    [][(Completes /\ last'.resp.status = 200) => LeftOnlyLaterTrips]_vars

\* the deletion was the last request to complete and succeeded; a trip that
\* names the deleted passenger is stored
C29_Witness ==
    /\ DeletionSucceeded
    /\ last.target \in PassengerIds
    /\ passengers[last.target].st = "gone"
    /\ \E t \in LiveTrips : trips[t].passengerId = last.target

\* ---- properties of the register/login round trip -----------------------------------------
\* the usernames and passwords of the round trip: a password of nine
\* characters, the same with a leading space, and one that is too short
RoundTripNames == {"amy", "bob", "al"}
RoundTripPasswords == {"password1", " password1", "short"}

\* C30: for every username u and password p for which POST /users/register
\* succeeds, a POST /users/login with the same u and the same p that follows
\* while the user is unchanged succeeds and returns a token
C30_RegisterThenLogin ==
    \A u \in RoundTripNames, p \in RoundTripPasswords, a \in BOOLEAN :
        LET r == register(users, u, p, TRUE, a, "ok", "ok") IN
        (FreshId(users, UserIds) # 0 /\ r.resp.status = 201)
           => LET l == login(r.users, u, p, "ok", "ok") IN
              l.resp.status = 200 /\ l.id = FreshId(users, UserIds)

\* a user is registered whose stored hash is that of "password1", and the
\* login that followed was refused: the password sent both times has a
\* leading space, which only register trims
C30_Witness ==
    /\ last.op = "login"
    /\ last.resp.status = 401
    /\ Cardinality(LiveUsers) = 1
    /\ \A i \in LiveUsers :
          /\ users[i].password = Hash(Trim(" password1"))
          /\ login(users, users[i].userName, " password1", "ok", "ok").resp.status = 401
          /\ login(users, users[i].userName, Trim(" password1"), "ok", "ok").resp.status = 200

====
